---- MODULE Spec2Model ----
(***************************************************************************)
(* A model of the client-side geocoding service of pngmapper               *)
(* (frontend/src/services/geocoding.js): address normalisation, the five   *)
(* fallback strategies, the provider attempt with its 503 retry, the       *)
(* resolution of one address and the batch scheduler.                      *)
(*                                                                         *)
(* Strings are TLA+ strings; a character is a string of length 1 and is    *)
(* read with SubSeq.  Positions are 1-based; a match "end" is the position *)
(* following the last matched character, and 0 means "no match".           *)
(***************************************************************************)
EXTENDS Integers, Sequences, FiniteSets, TLC

(***************************************************************************)
(* Characters and the character classes of the regular expressions.        *)
(***************************************************************************)
Ch(s, i) == SubSeq(s, i, i)

UpperSeq == "ABCDEFGHIJKLMNOPQRSTUVWXYZ"
LowerSeq == "abcdefghijklmnopqrstuvwxyz"

UpperSet == { Ch(UpperSeq, i) : i \in 1..26 }
LowerSet == { Ch(LowerSeq, i) : i \in 1..26 }
DigitSet == { "0", "1", "2", "3", "4", "5", "6", "7", "8", "9" }

SpaceSet == { " ", "\t", "\n", "\r" }
LetterSet == UpperSet \cup LowerSet
\* \w
WordSet == LetterSet \cup DigitSet \cup { "_" }
\* [A-Z0-9] under the i flag
AlnumSet == LetterSet \cup DigitSet
\* [A-Z0-9] without the i flag
UpperDigitSet == UpperSet \cup DigitSet
\* [A-Za-z\s]
LetterSpaceSet == LetterSet \cup SpaceSet

ToLowerCh(c) ==
  IF c \in UpperSet
    THEN Ch(LowerSeq, CHOOSE i \in 1..26 : Ch(UpperSeq, i) = c)
    ELSE c

\* The element of a one-element set.
Only(S) == CHOOSE v \in S : TRUE

\* The character at position i belongs to class C (false outside the string).
At(s, i, C) == i >= 1 /\ i <= Len(s) /\ Ch(s, i) \in C
IsCh(s, i, c) == i >= 1 /\ i <= Len(s) /\ Ch(s, i) = c

\* End of the maximal run of class-C characters that starts at p (a greedy
\* C* : the result is p when the run is empty).
RECURSIVE SpanEnd(_, _, _)
SpanEnd(s, p, C) == IF At(s, p, C) THEN SpanEnd(s, p + 1, C) ELSE p

\* \b just before position p.
WordBoundary(s, p) == At(s, p - 1, WordSet) # At(s, p, WordSet)

\* The literal lit is at position p (case-sensitive / under the i flag).
LitAt(s, p, lit) ==
  /\ p >= 1
  /\ p + Len(lit) - 1 <= Len(s)
  /\ SubSeq(s, p, p + Len(lit) - 1) = lit
LitAtCI(s, p, lowlit) ==
  /\ p >= 1
  /\ p + Len(lowlit) - 1 <= Len(s)
  /\ \A k \in 1..Len(lowlit) : ToLowerCh(Ch(s, p + k - 1)) = Ch(lowlit, k)

\* n characters of class C from position p.
RunOf(s, p, n, C) == \A k \in 0..(n - 1) : At(s, p + k, C)

\* String.prototype.trim
RECURSIVE LastNonSpace(_, _)
LastNonSpace(s, q) ==
  IF q >= 1 /\ Ch(s, q) \in SpaceSet THEN LastNonSpace(s, q - 1) ELSE q
Trim(s) == SubSeq(s, SpanEnd(s, 1, SpaceSet), LastNonSpace(s, Len(s)))

\* String.prototype.split(','): the segments between the commas.
RECURSIVE NextComma(_, _)
NextComma(s, p) ==
  IF p > Len(s) \/ Ch(s, p) = "," THEN p ELSE NextComma(s, p + 1)
RECURSIVE SplitFrom(_, _)
SplitFrom(s, p) ==
  LET c == NextComma(s, p)
  IN  IF c > Len(s)
        THEN << SubSeq(s, p, Len(s)) >>
        ELSE << SubSeq(s, p, c - 1) >> \o SplitFrom(s, c + 1)
SplitComma(s) == SplitFrom(s, 1)
\* .split(',').map(p => p.trim())
TrimmedParts(s) ==
  LET parts == SplitComma(s)
  IN  [ i \in 1..Len(parts) |-> Trim(parts[i]) ]

(***************************************************************************)
(* Normalisation: address.replace(/[\t\s]{2,}/g, ', ').trim(), fixZipCode. *)
(***************************************************************************)
RECURSIVE CollapseFrom(_, _)
CollapseFrom(s, p) ==
  IF p > Len(s) THEN ""
  ELSE LET e == SpanEnd(s, p, SpaceSet)
       IN  IF e - p >= 2
             THEN ", " \o CollapseFrom(s, e)
             ELSE Ch(s, p) \o CollapseFrom(s, p + 1)
CollapseWhitespace(s) == CollapseFrom(s, 1)

\* A variant without the \b that closes the pattern.
ZipFixDigitsNoBoundary(s, p) ==
  LET d == SpanEnd(s, p + 2, SpaceSet)
  IN  IF /\ WordBoundary(s, p)
         /\ RunOf(s, p, 2, UpperSet)
         /\ d > p + 2
         /\ RunOf(s, d, 4, DigitSet)
        THEN d ELSE 0

\* /\b([A-Z]{2})\s+(\d{4})\b/ matched at p: the position of the 4 digits,
\* or 0.
ZipFixDigitsAt(s, p) ==
  LET d == SpanEnd(s, p + 2, SpaceSet)
  IN  IF /\ WordBoundary(s, p)
         /\ RunOf(s, p, 2, UpperSet)
         /\ d > p + 2
         /\ RunOf(s, d, 4, DigitSet)
         /\ WordBoundary(s, d + 4)
        THEN d ELSE 0

RECURSIVE FixZipFrom(_, _)
FixZipFrom(s, p) ==
  IF p > Len(s) THEN ""
  ELSE LET d == ZipFixDigitsAt(s, p)
       IN  IF d # 0
             THEN SubSeq(s, p, p + 1) \o " 0" \o SubSeq(s, d, d + 3)
                    \o FixZipFrom(s, d + 4)
             ELSE Ch(s, p) \o FixZipFrom(s, p + 1)
fixZipCode(address) == FixZipFrom(address, 1)

Normalize(address) ==
  Only({ fixZipCode(trimmed) :
    trimmed \in { Trim(collapsed) :
    collapsed \in { CollapseWhitespace(address) } } })

(***************************************************************************)
(* simplifyAddress: three removals (all under the g and i flags), the      *)
(* comma/space clean-up and trim.                                          *)
(***************************************************************************)
\* /\b(Building|Bldg\.?)\s+[A-Z0-9]+,?\s*/gi
BuildingEnd(s, p) ==
  LET k == IF LitAtCI(s, p, "building") THEN p + 8
           ELSE IF LitAtCI(s, p, "bldg")
                  THEN (IF IsCh(s, p + 4, ".") THEN p + 5 ELSE p + 4)
                  ELSE 0
      a == SpanEnd(s, k, SpaceSet)
      b == SpanEnd(s, a, AlnumSet)
      c == IF IsCh(s, b, ",") THEN b + 1 ELSE b
  IN  IF WordBoundary(s, p) /\ k # 0 /\ a > k /\ b > a
        THEN SpanEnd(s, c, SpaceSet) ELSE 0

\* /,?\s*(Suite|Unit|Ste\.?|#)\s+[A-Z0-9]+/gi
SuiteEnd(s, p) ==
  LET c == IF IsCh(s, p, ",") THEN p + 1 ELSE p
      w == SpanEnd(s, c, SpaceSet)
      k == IF LitAtCI(s, w, "suite") THEN w + 5
           ELSE IF LitAtCI(s, w, "unit") THEN w + 4
           ELSE IF LitAtCI(s, w, "ste")
                  THEN (IF IsCh(s, w + 3, ".") THEN w + 4 ELSE w + 3)
           ELSE IF IsCh(s, w, "#") THEN w + 1
           ELSE 0
      a == SpanEnd(s, k, SpaceSet)
      b == SpanEnd(s, a, AlnumSet)
  IN  IF k # 0 /\ a > k /\ b > a THEN b ELSE 0

\* /,?\s*[A-Z][a-z]+\s+(Gate|Ward)\s+Industrial\s+Park,?\s*/gi
IndustrialParkEnd(s, p) ==
  LET c  == IF IsCh(s, p, ",") THEN p + 1 ELSE p
      w  == SpanEnd(s, c, SpaceSet)
      n  == SpanEnd(s, w, LetterSet)
      a  == SpanEnd(s, n, SpaceSet)
      g  == IF LitAtCI(s, a, "gate") \/ LitAtCI(s, a, "ward") THEN a + 4 ELSE 0
      a2 == SpanEnd(s, g, SpaceSet)
      i  == IF LitAtCI(s, a2, "industrial") THEN a2 + 10 ELSE 0
      a3 == SpanEnd(s, i, SpaceSet)
      k  == IF LitAtCI(s, a3, "park") THEN a3 + 4 ELSE 0
      c2 == IF IsCh(s, k, ",") THEN k + 1 ELSE k
  IN  IF /\ n >= w + 2 /\ a > n
         /\ g # 0 /\ a2 > g
         /\ i # 0 /\ a3 > i
         /\ k # 0
        THEN SpanEnd(s, c2, SpaceSet) ELSE 0

RECURSIVE RemoveBuilding(_, _)
RemoveBuilding(s, p) ==
  IF p > Len(s) THEN ""
  ELSE IF BuildingEnd(s, p) # 0 THEN RemoveBuilding(s, BuildingEnd(s, p))
  ELSE Ch(s, p) \o RemoveBuilding(s, p + 1)

RECURSIVE RemoveSuite(_, _)
RemoveSuite(s, p) ==
  IF p > Len(s) THEN ""
  ELSE IF SuiteEnd(s, p) # 0 THEN RemoveSuite(s, SuiteEnd(s, p))
  ELSE Ch(s, p) \o RemoveSuite(s, p + 1)

RECURSIVE RemoveIndustrialPark(_, _)
RemoveIndustrialPark(s, p) ==
  IF p > Len(s) THEN ""
  ELSE IF IndustrialParkEnd(s, p) # 0
         THEN RemoveIndustrialPark(s, IndustrialParkEnd(s, p))
  ELSE Ch(s, p) \o RemoveIndustrialPark(s, p + 1)

\* .replace(/,\s*,/g, ',')
RECURSIVE CommaComma(_, _)
CommaComma(s, p) ==
  IF p > Len(s) THEN ""
  ELSE LET a == SpanEnd(s, p + 1, SpaceSet)
       IN  IF IsCh(s, p, ",") /\ IsCh(s, a, ",")
             THEN "," \o CommaComma(s, a + 1)
             ELSE Ch(s, p) \o CommaComma(s, p + 1)

\* .replace(/\s+,/g, ',')
RECURSIVE SpaceComma(_, _)
SpaceComma(s, p) ==
  IF p > Len(s) THEN ""
  ELSE LET a == SpanEnd(s, p, SpaceSet)
       IN  IF a > p /\ IsCh(s, a, ",")
             THEN "," \o SpaceComma(s, a + 1)
             ELSE Ch(s, p) \o SpaceComma(s, p + 1)

\* .replace(/,\s+/g, ', ')
RECURSIVE CommaSpace(_, _)
CommaSpace(s, p) ==
  IF p > Len(s) THEN ""
  ELSE LET a == SpanEnd(s, p + 1, SpaceSet)
       IN  IF IsCh(s, p, ",") /\ a > p + 1
             THEN ", " \o CommaSpace(s, a)
             ELSE Ch(s, p) \o CommaSpace(s, p + 1)

\* The replacements are chained; each intermediate string is bound to its
\* value before the next replacement reads it.
simplifyAddress(address) ==
  Only({ Trim(s6) :
    s6 \in { CommaSpace(s5, 1) :
    s5 \in { SpaceComma(s4, 1) :
    s4 \in { CommaComma(s3, 1) :
    s3 \in { RemoveIndustrialPark(s2, 1) :
    s2 \in { RemoveSuite(s1, 1) :
    s1 \in { RemoveBuilding(address, 1) } } } } } } })

(***************************************************************************)
(* The extraction strategies.  A strategy returns Null or Some(query).     *)
(***************************************************************************)
Null == << >>
Some(q) == << q >>
\* JavaScript truthiness of (string | null): neither null nor "".
Truthy(opt) == opt # Null /\ opt[1] # ""

\* First match of /\d{5}(-\d{4})?/ at or after p: its position, or 0.
RECURSIVE ZipDigitsFrom(_, _)
ZipDigitsFrom(s, p) ==
  IF p > Len(s) THEN 0
  ELSE IF RunOf(s, p, 5, DigitSet) THEN p
  ELSE ZipDigitsFrom(s, p + 1)
\* .replace(/\d{5}(-\d{4})?/, '') : the first match only.
RemoveFirstZip(s) ==
  LET p == ZipDigitsFrom(s, 1)
      e == IF IsCh(s, p + 5, "-") /\ RunOf(s, p + 6, 4, DigitSet)
             THEN p + 10 ELSE p + 5
  IN  IF p = 0 THEN s ELSE SubSeq(s, 1, p - 1) \o SubSeq(s, e, Len(s))

\* The words of s (maximal runs of non-space characters).
RECURSIVE NextSpace(_, _)
NextSpace(s, p) ==
  IF p > Len(s) \/ Ch(s, p) \in SpaceSet THEN p ELSE NextSpace(s, p + 1)
RECURSIVE SplitSpacesFrom(_, _)
SplitSpacesFrom(s, p) ==
  LET e == NextSpace(s, p)
  IN  IF e > Len(s)
        THEN << SubSeq(s, p, Len(s)) >>
        ELSE << SubSeq(s, p, e - 1) >>
               \o SplitSpacesFrom(s, SpanEnd(s, e, SpaceSet))
SplitSpaces(s) == SplitSpacesFrom(s, 1)

RECURSIVE JoinWith(_, _)
JoinWith(words, sep) ==
  IF Len(words) = 0 THEN ""
  ELSE IF Len(words) = 1 THEN words[1]
  ELSE words[1] \o sep \o JoinWith(Tail(words), sep)

\* cityWords.slice(-3).join(' ') of beforeState.trim().split(/\s+/)
CityName(before) ==
  Only({ JoinWith(SubSeq(cityWords, IF Len(cityWords) > 3 THEN Len(cityWords) - 2 ELSE 1,
                         Len(cityWords)), " ") :
    cityWords \in { SplitSpaces(trimmed) : trimmed \in { Trim(before) } } })

\* The tail ,?\s+([A-Z]{2})\s+\d{5}(?:-\d{4})? of usPattern at q: the
\* position of the state code, or 0.
USRestAt(s, q) ==
  LET c == IF IsCh(s, q, ",") THEN q + 1 ELSE q
      w == SpanEnd(s, c, SpaceSet)
      d == SpanEnd(s, w + 2, SpaceSet)
  IN  IF /\ w > c
         /\ RunOf(s, w, 2, UpperSet)
         /\ d > w + 2
         /\ RunOf(s, d, 5, DigitSet)
        THEN w ELSE 0
\* The lazy group ([A-Za-z\s]+?) holds i..q-1: the least q at which the
\* tail matches, or 0.
RECURSIVE USLazyEnd(_, _)
USLazyEnd(s, q) ==
  IF USRestAt(s, q) # 0 THEN q
  ELSE IF At(s, q, LetterSpaceSet) THEN USLazyEnd(s, q + 1)
  ELSE 0
USGroupEnd(s, i) == IF At(s, i, LetterSpaceSet) THEN USLazyEnd(s, i + 1) ELSE 0
\* The leftmost start of a match of usPattern at or after i, or 0.
RECURSIVE USFind(_, _)
USFind(s, i) ==
  IF i > Len(s) THEN 0
  ELSE IF USGroupEnd(s, i) # 0 THEN i
  ELSE USFind(s, i + 1)

Provinces ==
  { "ON", "AB", "BC", "MB", "NB", "NL", "NS", "NT", "NU", "PE", "QC", "SK", "YT" }
\* The tail \s+(ON|...|YT)\s+[A-Z0-9]{3}\s*[A-Z0-9]{3} of caPattern at q:
\* the position of the province code, or 0.
CARestAt(s, q) ==
  LET w == SpanEnd(s, q, SpaceSet)
      d == SpanEnd(s, w + 2, SpaceSet)
      e == SpanEnd(s, d + 3, SpaceSet)
  IN  IF /\ w > q
         /\ w + 1 <= Len(s)
         /\ SubSeq(s, w, w + 1) \in Provinces
         /\ d > w + 2
         /\ RunOf(s, d, 3, UpperDigitSet)
         /\ RunOf(s, e, 3, UpperDigitSet)
        THEN w ELSE 0
RECURSIVE CALazyEnd(_, _)
CALazyEnd(s, q) ==
  IF CARestAt(s, q) # 0 THEN q
  ELSE IF At(s, q, LetterSpaceSet) THEN CALazyEnd(s, q + 1)
  ELSE 0
CAGroupEnd(s, i) == IF At(s, i, LetterSpaceSet) THEN CALazyEnd(s, i + 1) ELSE 0
RECURSIVE CAFind(_, _)
CAFind(s, i) ==
  IF i > Len(s) THEN 0
  ELSE IF CAGroupEnd(s, i) # 0 THEN i
  ELSE CAFind(s, i + 1)

\* First match of /\b([A-Z]{2})\b/ at or after p: its position, or 0.
RECURSIVE StateCodeFrom(_, _)
StateCodeFrom(s, p) ==
  IF p > Len(s) THEN 0
  ELSE IF WordBoundary(s, p) /\ RunOf(s, p, 2, UpperSet) /\ WordBoundary(s, p + 2)
         THEN p
  ELSE StateCodeFrom(s, p + 1)

\* A variant that tries the Canadian pattern before the US pattern.
extractCityStatePrefersProvince(address) ==
  LET us  == USFind(address, 1)
      usq == USGroupEnd(address, us)
      usw == USRestAt(address, usq)
      ca  == CAFind(address, 1)
      caq == CAGroupEnd(address, ca)
      caw == CARestAt(address, caq)
      parts == TrimmedParts(address)
      n == Len(parts)
      cityPart == Trim(RemoveFirstZip(parts[n - 1]))
      statePart == Trim(RemoveFirstZip(parts[n]))
      st == StateCodeFrom(statePart, 1)
  IN  IF ca # 0
        THEN Some(CityName(SubSeq(address, ca, caq - 1)) \o ", "
                    \o SubSeq(address, caw, caw + 1))
      ELSE IF us # 0
        THEN Some(CityName(SubSeq(address, us, usq - 1)) \o ", "
                    \o SubSeq(address, usw, usw + 1))
      ELSE IF n >= 2
        THEN (IF st # 0
                THEN Some(cityPart \o ", " \o SubSeq(statePart, st, st + 1))
                ELSE Some(cityPart \o ", " \o statePart))
      ELSE Null

extractCityState(address) ==
  LET us  == USFind(address, 1)
      usq == USGroupEnd(address, us)
      usw == USRestAt(address, usq)
      ca  == CAFind(address, 1)
      caq == CAGroupEnd(address, ca)
      caw == CARestAt(address, caq)
      parts == TrimmedParts(address)
      n == Len(parts)
      cityPart == Trim(RemoveFirstZip(parts[n - 1]))
      statePart == Trim(RemoveFirstZip(parts[n]))
      st == StateCodeFrom(statePart, 1)
  IN  IF us # 0
        THEN Some(CityName(SubSeq(address, us, usq - 1)) \o ", "
                    \o SubSeq(address, usw, usw + 1))
      ELSE IF ca # 0
        THEN Some(CityName(SubSeq(address, ca, caq - 1)) \o ", "
                    \o SubSeq(address, caw, caw + 1))
      ELSE IF n >= 2
        THEN (IF st # 0
                THEN Some(cityPart \o ", " \o SubSeq(statePart, st, st + 1))
                ELSE Some(cityPart \o ", " \o statePart))
      ELSE Null

extractStreetCity(address) ==
  LET parts == TrimmedParts(address)
      n == Len(parts)
      lastPart == Trim(RemoveFirstZip(parts[n]))
  IN  IF n >= 2 /\ n >= 3
        THEN Some(parts[n - 1] \o ", " \o lastPart)
        ELSE Null

\* First match of /\b(\d{5})(?:-\d{4})?\b/ at or after p: its position, or 0.
RECURSIVE USZipFrom(_, _)
USZipFrom(s, p) ==
  IF p > Len(s) THEN 0
  ELSE IF /\ WordBoundary(s, p)
          /\ RunOf(s, p, 5, DigitSet)
          /\ \/ /\ IsCh(s, p + 5, "-")
                /\ RunOf(s, p + 6, 4, DigitSet)
                /\ WordBoundary(s, p + 10)
             \/ WordBoundary(s, p + 5)
         THEN p
  ELSE USZipFrom(s, p + 1)

\* /\b([A-Z]\d[A-Z]\s*\d[A-Z]\d)\b/ matched at p: its end, or 0.
CAPostalEnd(s, p) ==
  LET e == SpanEnd(s, p + 3, SpaceSet)
  IN  IF /\ WordBoundary(s, p)
         /\ At(s, p, UpperSet) /\ At(s, p + 1, DigitSet) /\ At(s, p + 2, UpperSet)
         /\ At(s, e, DigitSet) /\ At(s, e + 1, UpperSet) /\ At(s, e + 2, DigitSet)
         /\ WordBoundary(s, e + 3)
        THEN e + 3 ELSE 0
RECURSIVE CAPostalFrom(_, _)
CAPostalFrom(s, p) ==
  IF p > Len(s) THEN 0
  ELSE IF CAPostalEnd(s, p) # 0 THEN p
  ELSE CAPostalFrom(s, p + 1)

\* A variant that looks for a Canadian postal code first.
extractZipPrefersPostal(address) ==
  LET us == USZipFrom(address, 1)
      ca == CAPostalFrom(address, 1)
  IN  IF ca # 0 THEN Some(SubSeq(address, ca, CAPostalEnd(address, ca) - 1))
      ELSE IF us # 0 THEN Some(SubSeq(address, us, us + 4))
      ELSE Null

extractZipCode(address) ==
  LET us == USZipFrom(address, 1)
      ca == CAPostalFrom(address, 1)
  IN  IF us # 0 THEN Some(SubSeq(address, us, us + 4))
      ELSE IF ca # 0 THEN Some(SubSeq(address, ca, CAPostalEnd(address, ca) - 1))
      ELSE Null

(***************************************************************************)
(* Program constants.                                                      *)
(***************************************************************************)
MAX_RETRIES == 2
BATCH_SIZE == 2
BATCH_DELAY == 1000
TransientStatus == 503

PRECISION ==
  [ EXACT |-> "exact", SIMPLIFIED |-> "simplified", STREET |-> "street",
    CITY |-> "city", ZIPCODE |-> "zipcode" ]

(***************************************************************************)
(* Inputs and the provider.                                                *)
(***************************************************************************)
MaxAddrs == 3

Corpus ==
  << "123 Main St, Springfield, IL 62704",
     "Phoenix AZ 1234",
     "Suite 200, 9 Pine St Austin, TX 78701",
     "62704",
     "12 Elm Rd  Regina SK S4N 2C6",
     "Springfield, IL" >>

\* The address lists of a run: every run of consecutive corpus entries that
\* makes a single batch (the empty list included), and every prefix of the
\* corpus of at most MaxAddrs entries.
AddressLists ==
  { SubSeq(Corpus, w[1], w[2]) :
      w \in { v \in (1..Len(Corpus)) \X (0..Len(Corpus)) :
                v[2] - v[1] + 1 \in 0..BATCH_SIZE } }
  \cup { SubSeq(Corpus, 1, n) : n \in 0..MaxAddrs }

\* What one provider request can end in: an HTTP response (status and, when
\* the status is a success, the parsed JSON body) or a rejection of fetch.
ProviderMatches ==
  { [ lat |-> "39.7817", lon |-> "-89.650", display_name |-> "Springfield, Illinois, USA" ] }
ErrorStatuses == { 429, 500 }
Responses ==
  { [ kind |-> "response", status |-> 200, data |-> << m >> ] : m \in ProviderMatches }
  \cup { [ kind |-> "response", status |-> 200, data |-> << >> ] }
  \cup { [ kind |-> "response", status |-> st, data |-> << >> ] :
           st \in ErrorStatuses \cup { TransientStatus } }
  \cup { [ kind |-> "rejected", status |-> 0, data |-> << >> ] }
RejectionMessage == "Failed to fetch"

\* response.ok
ResponseOk(response) == response.status >= 200 /\ response.status <= 299

(***************************************************************************)
(* parseFloat on a decimal string: the value as mantissa * 10^(-scale),    *)
(* with the trailing zeros of the fraction dropped.                        *)
(***************************************************************************)
DigitValue(c) == CHOOSE v \in 0..9 : Ch("0123456789", v + 1) = c
RECURSIVE DigitsValue(_, _)
DigitsValue(s, acc) ==
  IF s = "" THEN acc
  ELSE DigitsValue(SubSeq(s, 2, Len(s)), acc * 10 + DigitValue(Ch(s, 1)))
RECURSIVE LastNonZero(_, _)
LastNonZero(s, q) == IF q >= 1 /\ Ch(s, q) = "0" THEN LastNonZero(s, q - 1) ELSE q
NaN == [ nan |-> TRUE, mantissa |-> 0, scale |-> 0 ]
parseFloat(str) ==
  LET s0 == SpanEnd(str, 1, SpaceSet)
      neg == IsCh(str, s0, "-")
      s1 == IF IsCh(str, s0, "-") \/ IsCh(str, s0, "+") THEN s0 + 1 ELSE s0
      e1 == SpanEnd(str, s1, DigitSet)
      f1 == IF IsCh(str, e1, ".") THEN e1 + 1 ELSE e1
      e2 == SpanEnd(str, f1, DigitSet)
      int == SubSeq(str, s1, e1 - 1)
      fracAll == SubSeq(str, f1, e2 - 1)
      frac == SubSeq(fracAll, 1, LastNonZero(fracAll, Len(fracAll)))
      m == DigitsValue(int \o frac, 0)
  IN  IF e1 = s1 /\ e2 = f1 THEN NaN
      ELSE [ nan |-> FALSE, mantissa |-> IF neg THEN 0 - m ELSE m, scale |-> Len(frac) ]

(***************************************************************************)
(* Results of one address.                                                 *)
(***************************************************************************)
\* A variant that labels every match with the level of the first strategy.
PrecisionAlwaysExact(s) == PRECISION.EXACT

Precision(s) ==
  CASE s = 1 -> PRECISION.EXACT
    [] s = 2 -> PRECISION.SIMPLIFIED
    [] s = 3 -> PRECISION.STREET
    [] s = 4 -> PRECISION.CITY
    [] s = 5 -> PRECISION.ZIPCODE

\* A variant whose notes are empty strings.
NoteEmpty(s) == ""

Note(s) ==
  CASE s = 2 -> "Building/suite designation removed for successful geocoding"
    [] s = 3 -> "Matched to street/area level (less precise)"
    [] s = 4 -> "Matched to city/region only (approximate location)"
    [] s = 5 -> "Matched to ZIP/postal code area only (very approximate location)"

\* parseFloat tabulated over the coordinate strings the provider reports.
ParsedOf ==
  [ str \in { m.lat : m \in ProviderMatches } \cup { m.lon : m \in ProviderMatches }
      |-> parseFloat(str) ]

\* A variant that names the result after the raw address, as the sequential
\* geocoder did.
SuccessNamesRawAddress(address, normalized, s, match) ==
  LET common ==
        [ address |-> address,
          lat |-> ParsedOf[match.lat],
          lng |-> ParsedOf[match.lon],
          name |-> address,
          success |-> TRUE,
          displayName |-> match.display_name,
          precision |-> Precision(s) ]
  IN  IF s = 1 THEN common ELSE common @@ [ note |-> Note(s) ]

\* The object returned when the call of strategy s matched.
SuccessResult(address, normalized, s, match) ==
  LET common ==
        [ address |-> address,
          lat |-> ParsedOf[match.lat],
          lng |-> ParsedOf[match.lon],
          name |-> normalized,
          success |-> TRUE,
          displayName |-> match.display_name,
          precision |-> Precision(s) ]
  IN  IF s = 1 THEN common ELSE common @@ [ note |-> Note(s) ]

NotFoundMessage == "Address not found after trying all fallback strategies"
\* A variant whose not-found result carries placeholder coordinates.
NotFoundWithCoordinates(address) ==
  [ address |-> address, success |-> FALSE, error |-> NotFoundMessage,
    lat |-> NaN, lng |-> NaN ]

NotFoundResult(address) ==
  [ address |-> address, success |-> FALSE, error |-> NotFoundMessage ]

\* The settled state of the promise of one geocodeSingleAddress call.
Fulfilled(value) == [ state |-> "fulfilled", value |-> value ]
Rejected(reason) == [ state |-> "rejected", reason |-> reason ]

\* A variant of the catch clause that lets the error out of the call.
CatchRethrows(address, message) == Rejected(message)

\* The catch clause of geocodeSingleAddress.
CatchError(address, message) ==
  Fulfilled([ address |-> address,
              success |-> FALSE,
              error |-> IF message # "" THEN message ELSE "Geocoding failed" ])

(***************************************************************************)
(* The strategy chain of geocodeSingleAddress: the query strategy s sends, *)
(* or Null when the strategy is passed over.                               *)
(***************************************************************************)
\* A variant whose second strategy sends the simplified string even when it
\* is the normalized address.
StrategyQueryAlwaysSimplified(s, normalized) ==
  CASE s = 1 -> Some(normalized)
    [] s = 2 -> Some(simplifyAddress(normalized))
    [] s = 3 ->
         LET simplified == simplifyAddress(normalized)
             streetCity == extractStreetCity(normalized)
         IN  IF /\ Truthy(streetCity)
                /\ streetCity[1] # normalized
                /\ streetCity[1] # simplified
               THEN streetCity ELSE Null
    [] s = 4 ->
         LET cityState == extractCityState(normalized)
         IN  IF Truthy(cityState) THEN cityState ELSE Null
    [] s = 5 ->
         LET zipCode == extractZipCode(normalized)
         IN  IF Truthy(zipCode) THEN zipCode ELSE Null

StrategyQuery(s, normalized) ==
  CASE s = 1 -> Some(normalized)
    [] s = 2 ->
         LET simplified == simplifyAddress(normalized)
         IN  IF simplified # normalized THEN Some(simplified) ELSE Null
    [] s = 3 ->
         LET simplified == simplifyAddress(normalized)
             streetCity == extractStreetCity(normalized)
         IN  IF /\ Truthy(streetCity)
                /\ streetCity[1] # normalized
                /\ streetCity[1] # simplified
               THEN streetCity ELSE Null
    [] s = 4 ->
         LET cityState == extractCityState(normalized)
         IN  IF Truthy(cityState) THEN cityState ELSE Null
    [] s = 5 ->
         LET zipCode == extractZipCode(normalized)
         IN  IF Truthy(zipCode) THEN zipCode ELSE Null

\* Normalize and StrategyQuery tabulated over the corpus (both are pure; the
\* tables are computed once).
NormalizedOf == [ a \in { Corpus[k] : k \in 1..Len(Corpus) } |-> Normalize(a) ]
QueriesOf ==
  [ n \in { NormalizedOf[a] : a \in DOMAIN NormalizedOf } |->
      [ s \in 1..5 |-> StrategyQuery(s, n) ] ]

\* A variant of the chain that gives up after the street/city strategy.
RECURSIVE NextCallStopsEarly(_, _)
NextCallStopsEarly(s, normalized) ==
  IF s > 3 THEN [ strategy |-> 6, query |-> "" ]
  ELSE Only({ IF q # Null
                THEN [ strategy |-> s, query |-> q[1] ]
                ELSE NextCallStopsEarly(s + 1, normalized) :
              q \in { QueriesOf[normalized][s] } })

\* The first strategy from s on that sends a query, with that query;
\* strategy 6 when none is left.
RECURSIVE NextCall(_, _)
NextCall(s, normalized) ==
  IF s > 5 THEN [ strategy |-> 6, query |-> "" ]
  ELSE Only({ IF q # Null
                THEN [ strategy |-> s, query |-> q[1] ]
                ELSE NextCall(s + 1, normalized) :
              q \in { QueriesOf[normalized][s] } })

(***************************************************************************)
(* Variants of attemptGeocode with a different error policy.  The          *)
(* properties of the retry policy are shown to tell them from the code.    *)
(***************************************************************************)
\* An empty match set is raised as an error.
AttemptEmptyThrows(response, retryCount) ==
  IF response.kind = "rejected"
    THEN [ type |-> "throw", message |-> RejectionMessage, value |-> Null ]
  ELSE IF ~ResponseOk(response)
    THEN IF response.status = TransientStatus /\ retryCount < MAX_RETRIES
           THEN [ type |-> "retry", message |-> "", value |-> Null ]
           ELSE [ type |-> "throw",
                  message |-> "HTTP " \o ToString(response.status),
                  value |-> Null ]
  ELSE IF Len(response.data) > 0
    THEN [ type |-> "return", message |-> "", value |-> Some(response.data[1]) ]
    ELSE [ type |-> "throw", message |-> "No results", value |-> Null ]

\* Any failed request reads as "no match".
AttemptSwallowsErrors(response, retryCount) ==
  IF response.kind = "rejected" \/ ~ResponseOk(response)
    THEN [ type |-> "return", message |-> "", value |-> Null ]
  ELSE [ type |-> "return",
         message |-> "",
         value |-> IF Len(response.data) > 0 THEN Some(response.data[1]) ELSE Null ]

\* One retry more than MAX_RETRIES.
AttemptRetriesOnceMore(response, retryCount) ==
  IF response.kind = "rejected"
    THEN [ type |-> "throw", message |-> RejectionMessage, value |-> Null ]
  ELSE IF ~ResponseOk(response)
    THEN IF response.status = TransientStatus /\ retryCount <= MAX_RETRIES
           THEN [ type |-> "retry", message |-> "", value |-> Null ]
           ELSE [ type |-> "throw",
                  message |-> "HTTP " \o ToString(response.status),
                  value |-> Null ]
  ELSE [ type |-> "return",
         message |-> "",
         value |-> IF Len(response.data) > 0 THEN Some(response.data[1]) ELSE Null ]

\* One retry less than MAX_RETRIES.
AttemptRetriesOnceLess(response, retryCount) ==
  IF response.kind = "rejected"
    THEN [ type |-> "throw", message |-> RejectionMessage, value |-> Null ]
  ELSE IF ~ResponseOk(response)
    THEN IF response.status = TransientStatus /\ retryCount + 1 < MAX_RETRIES
           THEN [ type |-> "retry", message |-> "", value |-> Null ]
           ELSE [ type |-> "throw",
                  message |-> "HTTP " \o ToString(response.status),
                  value |-> Null ]
  ELSE [ type |-> "return",
         message |-> "",
         value |-> IF Len(response.data) > 0 THEN Some(response.data[1]) ELSE Null ]

\* Every non-success status is retried, not only the transient one.
AttemptRetriesAnyStatus(response, retryCount) ==
  IF response.kind = "rejected"
    THEN [ type |-> "throw", message |-> RejectionMessage, value |-> Null ]
  ELSE IF ~ResponseOk(response)
    THEN IF retryCount < MAX_RETRIES
           THEN [ type |-> "retry", message |-> "", value |-> Null ]
           ELSE [ type |-> "throw",
                  message |-> "HTTP " \o ToString(response.status),
                  value |-> Null ]
  ELSE [ type |-> "return",
         message |-> "",
         value |-> IF Len(response.data) > 0 THEN Some(response.data[1]) ELSE Null ]

\* A transient status that outlasts the retries reads as "no match".
AttemptGivesUpQuietly(response, retryCount) ==
  IF response.kind = "rejected"
    THEN [ type |-> "throw", message |-> RejectionMessage, value |-> Null ]
  ELSE IF ~ResponseOk(response)
    THEN IF response.status = TransientStatus
           THEN IF retryCount < MAX_RETRIES
                  THEN [ type |-> "retry", message |-> "", value |-> Null ]
                  ELSE [ type |-> "return", message |-> "", value |-> Null ]
           ELSE [ type |-> "throw",
                  message |-> "HTTP " \o ToString(response.status),
                  value |-> Null ]
  ELSE [ type |-> "return",
         message |-> "",
         value |-> IF Len(response.data) > 0 THEN Some(response.data[1]) ELSE Null ]

(***************************************************************************)
(* attemptGeocode, from the point where the awaited fetch has ended in     *)
(* `response`: it returns data[0] or null, throws, or waits RETRY_DELAY_MS *)
(* and calls itself with retryCount + 1.                                   *)
(***************************************************************************)
AttemptOutcome(response, retryCount) ==
  IF response.kind = "rejected"
    THEN [ type |-> "throw", message |-> RejectionMessage, value |-> Null ]
  ELSE IF ~ResponseOk(response)
    THEN IF response.status = TransientStatus /\ retryCount < MAX_RETRIES
           THEN [ type |-> "retry", message |-> "", value |-> Null ]
           ELSE [ type |-> "throw",
                  message |-> "HTTP " \o ToString(response.status),
                  value |-> Null ]
  ELSE [ type |-> "return",
         message |-> "",
         value |-> IF Len(response.data) > 0 THEN Some(response.data[1]) ELSE Null ]

(***************************************************************************)
(* estimateGeocodingTime(count), for an integer count >= 0.                *)
(***************************************************************************)
ESTIMATE_BATCH_SIZE == 2
BATCH_DELAY_SECONDS == 1

\* Math.ceil(a / b) and Math.max(a, b) on integers, a >= 0, b > 0.
CeilDiv(a, b) == (a + b - 1) \div b
Max(a, b) == IF a >= b THEN a ELSE b

\* A variant that still assumes one request per address, as the sequential
\* scheduler did.
EstimateSecondsPerAddress(n) ==
  Max(n - 1, 0) * BATCH_DELAY_SECONDS + 1

\* The seconds the estimate assumes: one per inter-batch delay, plus one.
EstimateSeconds(n) ==
  LET numBatches == CeilDiv(n, ESTIMATE_BATCH_SIZE)
  IN  Max(numBatches - 1, 0) * BATCH_DELAY_SECONDS + 1

\* A variant that switches to minutes one second late.
estimateSwitchesLate(n) ==
  LET numBatches == CeilDiv(n, ESTIMATE_BATCH_SIZE)
      seconds == Max(numBatches - 1, 0) * BATCH_DELAY_SECONDS + 1
  IN  IF seconds <= 60
        THEN "~" \o ToString(seconds) \o " seconds"
        ELSE LET minutes == CeilDiv(seconds, 60)
             IN  "~" \o ToString(minutes) \o " minute"
                   \o (IF minutes > 1 THEN "s" ELSE "")

estimateGeocodingTime(n) ==
  LET seconds == EstimateSeconds(n)
  IN  IF seconds < 60
        THEN "~" \o ToString(seconds) \o " seconds"
        ELSE LET minutes == CeilDiv(seconds, 60)
             IN  "~" \o ToString(minutes) \o " minute"
                   \o (IF minutes > 1 THEN "s" ELSE "")

(***************************************************************************)
(* The state of one run of geocodeAddresses(addresses, onProgress).        *)
(***************************************************************************)
VARIABLES
  addresses,       \* the input list
  onProgress,      \* whether a progress callback was passed
  sched,           \* where geocodeAddresses stands: "idle" (not called yet),
                   \* "awaitAll" (in await Promise.all), "batchDelay" (in
                   \* await delay(BATCH_DELAY)), "returned", "thrown"
  batchIndex,      \* the loop variable (0-based)
  results,         \* the results array
  completedCount,
  progress,        \* the onProgress calls made so far: <<current, total, result>>
  task,            \* per address: the frame of its geocodeSingleAddress call
  settled,         \* per address: << >>, or <<p>> once the call's promise settled
  completion,      \* the addresses of the current batch in completion order
  batchDelays,     \* the number of delay(BATCH_DELAY) calls made
  count,           \* the argument of a call of estimateGeocodingTime
  estimate,        \* Null, or Some(the string that call returned)
  provider,        \* the answers of a provider that answers by (query, attempt)
  derivation,      \* one address text, and what is derived from it so far
  ui               \* the state of the LocationInput component, or Null when
                   \* geocodeAddresses runs without it

\* Nothing derived yet from the text raw.
Underived(raw) ==
  [ raw |-> raw, normalized |-> Null, streetCity |-> Null, zipCode |-> Null,
    zipQuery |-> Null, cityState |-> Null, cityQuery |-> Null,
    renormalized |-> Null ]
\* No text is under derivation.
NoDerivation == Null

\* The state of a LocationInput whose textarea holds text and whose handler
\* is not running: the useState values, and to state the properties the
\* onLocationsAdded calls of the latest run, the results that run got and
\* the way it ended.
IdleInput(text) ==
  [ inputText |-> text, error |-> Null, loading |-> FALSE,
    progress |-> [ current |-> 0, total |-> 0 ], estimatedTime |-> "",
    pc |-> "idle", added |-> << >>, got |-> << >>, exit |-> "" ]

vars ==
  << addresses, onProgress, sched, batchIndex, results, completedCount,
     progress, task, settled, completion, batchDelays, count, estimate,
     provider, derivation, ui >>

\* A variant whose loop body runs once even when there is no batch.
NumBatchesAtLeastOne ==
  IF Len(addresses) = 0 THEN 1 ELSE (Len(addresses) + BATCH_SIZE - 1) \div BATCH_SIZE

\* batches.length, and the (1-based) positions that batches[b] holds.
NumBatches == (Len(addresses) + BATCH_SIZE - 1) \div BATCH_SIZE
BatchFirst(b) == b * BATCH_SIZE + 1
\* A variant that waits after every batch, the last one included.
AlwaysDelay(b) == TRUE

\* A variant that abandons the remaining batches once a batch had a Failure.
MoreBatchesUnlessFailed(b) ==
  /\ b < NumBatches - 1
  /\ \A i \in 1..Len(addresses) :
       settled[i] # << >> => settled[i][1].value.success

\* if (batchIndex < batches.length - 1)
MoreBatches(b) == b < NumBatches - 1

\* A variant whose slices run one address too far.
BatchLastOneMore(b) ==
  IF (b + 1) * BATCH_SIZE + 1 < Len(addresses)
    THEN (b + 1) * BATCH_SIZE + 1 ELSE Len(addresses)

BatchLast(b) ==
  IF (b + 1) * BATCH_SIZE < Len(addresses) THEN (b + 1) * BATCH_SIZE ELSE Len(addresses)
\* A variant without batches: every address is started at once.
EveryAddress(b) == 1..Len(addresses)

BatchMembers(b) == BatchFirst(b)..BatchLast(b)

\* A frame holds the locals of geocodeSingleAddress (normalized) and of the
\* attemptGeocode call it is in (strategy, query, retryCount).  To state
\* the properties it also records what happened: the number of fetches, of
\* retry delays and of transient answers of that attemptGeocode call chain,
\* the last response the call got, and the calls geocodeSingleAddress has
\* made to attemptGeocode so far, each with the kind of its latest answer.
PendingTask ==
  [ pc |-> "pending", normalized |-> "", strategy |-> 0, query |-> "",
    retryCount |-> 0, fetches |-> 0, delays |-> 0, transients |-> 0,
    last |-> << >>, sent |-> << >> ]

ReturnedTask == [ PendingTask EXCEPT !.pc = "returned" ]

\* How a response reads, whatever attemptGeocode makes of it.
ResponseKind(response) ==
  IF response.kind = "rejected" THEN "rejected"
  ELSE IF response.status = TransientStatus THEN "transient"
  ELSE IF ~ResponseOk(response) THEN "error"
  ELSE IF Len(response.data) > 0 THEN "match"
  ELSE "empty"

\* A variant in which the retry count of the previous call carries over to
\* the next one (one retry budget per address).
IssueCallKeepsRetryCount(t, s, query) ==
  [ t EXCEPT !.pc = "fetching", !.strategy = s, !.query = query,
             !.fetches = 1, !.delays = 0, !.transients = 0,
             !.sent = Append(@, [ strategy |-> s, query |-> query, answer |-> "" ]) ]

\* geocodeSingleAddress calls attemptGeocode(query) for strategy s: the
\* fetch is issued before the first await.
IssueCall(t, s, query) ==
  [ t EXCEPT !.pc = "fetching", !.strategy = s, !.query = query,
             !.retryCount = 0, !.fetches = 1, !.delays = 0, !.transients = 0,
             !.sent = Append(@, [ strategy |-> s, query |-> query, answer |-> "" ]) ]

\* The frame once the awaited fetch has ended in `response`.
Answered(t, response) ==
  [ t EXCEPT !.last = << response >>,
             !.transients = IF ResponseKind(response) = "transient" THEN @ + 1 ELSE @,
             !.sent[Len(t.sent)].answer = ResponseKind(response) ]

\* A variant of the test of a call's result that never sees a match.
NoResult(value) == FALSE

\* if (result)
HasResult(value) == value # Null

\* geocodeSingleAddress(address) up to its first await.
StartTask(address) ==
  LET normalized == NormalizedOf[address]
  IN  IssueCall([ PendingTask EXCEPT !.normalized = normalized ], 1, normalized)

\* geocodeSingleAddress from the point where the fetch of frame t has ended
\* in `response`, up to its next await or its return: the new frame and,
\* when the call has returned or thrown, the settled promise.
Continue(address, t, response) ==
  Only({
    IF out.type = "retry"
      THEN [ task |-> [ t1 EXCEPT !.pc = "retryDelay", !.delays = @ + 1 ],
             promise |-> << >> ]
    ELSE IF out.type = "throw"
      THEN [ task |-> [ t1 EXCEPT !.pc = "done" ],
             promise |-> << CatchError(address, out.message) >> ]
    ELSE IF HasResult(out.value)
      THEN [ task |-> [ t1 EXCEPT !.pc = "done" ],
             promise |-> << Fulfilled(SuccessResult(address, t.normalized,
                                                    t.strategy, out.value[1])) >> ]
    ELSE Only({
      IF next.strategy <= 5
        THEN [ task |-> IssueCall(t1, next.strategy, next.query),
               promise |-> << >> ]
        ELSE [ task |-> [ t1 EXCEPT !.pc = "done" ],
               promise |-> << Fulfilled(NotFoundResult(address)) >> ] :
      next \in { NextCall(t.strategy + 1, t.normalized) } }) :
    out \in { AttemptOutcome(response, t.retryCount) },
    t1 \in { Answered(t, response) } })

\* A variant whose call is never resumed after the retry delay.
RetryStalls(t) == t

\* attemptGeocode after await delay(RETRY_DELAY_MS): the recursive call
\* attemptGeocode(query, retryCount + 1) issues the next fetch.
Retry(t) ==
  [ t EXCEPT !.pc = "fetching", !.retryCount = @ + 1, !.fetches = @ + 1 ]

\* A variant that assembles the values in the order the promises settled.
PromiseAllByCompletion(b) ==
  [ k \in 1..Len(completion) |-> settled[completion[k]][1].value ]

\* The value of await Promise.all(batchPromises): the members' values by
\* position.
PromiseAll(b) ==
  [ k \in 1..(BatchLast(b) - BatchFirst(b) + 1) |->
      settled[BatchFirst(b) + k - 1][1].value ]

\* A variant that reports an address at the moment its promise is fulfilled.
SettleCallsReport(i, promise) ==
  IF onProgress /\ promise # << >> /\ promise[1].state = "fulfilled"
    THEN << << Len(progress) + 1, Len(addresses), promise[1].value >> >>
    ELSE << >>

\* The onProgress calls made when the promise of address i settles: none,
\* geocodeAddresses attaches nothing to the promises it hands to Promise.all.
SettleCalls(i, promise) == << >>

\* A variant that counts from 1 again in every batch.
ProgressCallsPerBatch(batchResults) ==
  [ k \in 1..Len(batchResults) |->
      << k, Len(addresses), batchResults[k] >> ]

\* A variant that reports the members in the order they completed.
ProgressCallsByCompletion(batchResults) ==
  [ k \in 1..Len(batchResults) |->
      << completedCount + k, Len(addresses), settled[completion[k]][1].value >> ]

\* The onProgress calls of the loop over batchResults.
ProgressCalls(batchResults) ==
  [ k \in 1..Len(batchResults) |->
      << completedCount + k, Len(addresses), batchResults[k] >> ]

\* A variant that also starts the members of the batch after b.
StartBatchAhead(b) ==
  [ i \in 1..Len(addresses) |->
      IF i \in BatchMembers(b) \/ i \in BatchMembers(b + 1)
        THEN StartTask(addresses[i]) ELSE task[i] ]

\* batch.map(address => geocodeSingleAddress(address)) for batches[b].
StartBatch(b) ==
  [ i \in 1..Len(addresses) |->
      IF i \in BatchMembers(b) THEN StartTask(addresses[i]) ELSE task[i] ]

Init ==
  /\ addresses \in AddressLists
  /\ onProgress \in BOOLEAN
  /\ sched = "idle"
  /\ batchIndex = 0
  /\ results = << >>
  /\ completedCount = 0
  /\ progress = << >>
  /\ task = [ i \in 1..Len(addresses) |-> PendingTask ]
  /\ settled = [ i \in 1..Len(addresses) |-> << >> ]
  /\ completion = << >>
  /\ batchDelays = 0
  /\ count = 0
  /\ estimate = Null
  /\ provider = << >>
  /\ derivation = NoDerivation
  /\ ui = Null

\* A run over a list of GroupAddrs short addresses (two strategies each).
GroupAddrs == 4
GroupList ==
  [ k \in 1..GroupAddrs |-> IF k % 2 = 1 THEN Corpus[4] ELSE Corpus[6] ]

InitGroups ==
  /\ addresses = GroupList
  /\ onProgress = TRUE
  /\ sched = "idle"
  /\ batchIndex = 0
  /\ results = << >>
  /\ completedCount = 0
  /\ progress = << >>
  /\ task = [ i \in 1..Len(addresses) |-> PendingTask ]
  /\ settled = [ i \in 1..Len(addresses) |-> << >> ]
  /\ completion = << >>
  /\ batchDelays = 0
  /\ count = 0
  /\ estimate = Null
  /\ provider = << >>
  /\ derivation = NoDerivation
  /\ ui = Null

\* geocodeAddresses is called: it runs up to its first await, or to its
\* return when there is no batch.
Call ==
  /\ sched = "idle"
  /\ sched' = IF NumBatches > 0 THEN "awaitAll" ELSE "returned"
  /\ task' = IF NumBatches > 0 THEN StartBatch(0) ELSE task
  /\ UNCHANGED << ui, derivation, provider, count, estimate, addresses, onProgress, batchIndex, results, completedCount,
                  progress, settled, completion, batchDelays >>

\* The fetch awaited by address i ends in `response`: its call goes on up to
\* its next await or to its return.
ResponseArrives(i, response) ==
  /\ task[i].pc = "fetching"
  /\ \E c \in { Continue(addresses[i], task[i], response) } :
         /\ task' = [ task EXCEPT ![i] = c.task ]
         /\ settled' = [ settled EXCEPT ![i] = c.promise ]
         /\ completion' = IF c.promise # << >> THEN Append(completion, i) ELSE completion
         \* Promise.all rejects as soon as one of its promises rejects.
         /\ sched' = IF c.promise # << >> /\ c.promise[1].state = "rejected"
                        /\ sched = "awaitAll"
                       THEN "thrown" ELSE sched
         /\ progress' = progress \o SettleCalls(i, c.promise)
  /\ UNCHANGED << ui, derivation, count, estimate, addresses, onProgress, batchIndex, results, completedCount,
                  batchDelays >>

\* The provider request of address i ends in `response`, any response.
Respond(i, response) ==
  /\ ResponseArrives(i, response)
  /\ UNCHANGED provider

\* The request of address i is answered by a provider that gives the same
\* answer to the same (query, attempt number): the first such request
\* settles the answer, every later one gets it again.
ProviderResponds(i, response) ==
  LET key == << task[i].query, task[i].retryCount >>
  IN  /\ key \in DOMAIN provider => provider[key] = response
      /\ provider' = (key :> response) @@ provider
      /\ ResponseArrives(i, response)

\* The retry delay of address i elapses.
RetryDelayElapsed(i) ==
  /\ task[i].pc = "retryDelay"
  /\ task' = [ task EXCEPT ![i] = Retry(task[i]) ]
  /\ UNCHANGED << ui, derivation, provider, count, estimate, addresses, onProgress, sched, batchIndex, results,
                  completedCount, progress, settled, completion, batchDelays >>

\* Every promise of the batch is fulfilled: the loop body goes on after
\* await Promise.all, up to await delay(BATCH_DELAY) or to the return.
BatchGathered ==
  /\ sched = "awaitAll"
  /\ \A i \in BatchMembers(batchIndex) :
       settled[i] # << >> /\ settled[i][1].state = "fulfilled"
  /\ LET batchResults == PromiseAll(batchIndex)
     IN  /\ results' = results \o batchResults
         /\ completedCount' = completedCount + Len(batchResults)
         /\ progress' = IF onProgress
                          THEN progress \o ProgressCalls(batchResults)
                          ELSE progress
  /\ sched' = IF MoreBatches(batchIndex) THEN "batchDelay" ELSE "returned"
  /\ batchDelays' = IF MoreBatches(batchIndex) THEN batchDelays + 1 ELSE batchDelays
  \* the frames and promises of the batch are dropped
  /\ task' = [ i \in 1..Len(addresses) |->
                 IF i \in BatchMembers(batchIndex) THEN ReturnedTask ELSE task[i] ]
  /\ settled' = [ i \in 1..Len(addresses) |->
                    IF i \in BatchMembers(batchIndex) THEN << >> ELSE settled[i] ]
  /\ UNCHANGED << derivation, provider, count, estimate, addresses, onProgress, batchIndex, completion >>

\* The batch is gathered and the progress callback, if any, leaves the
\* component as it is.
GatherBatch ==
  /\ BatchGathered
  /\ UNCHANGED ui

\* delay(BATCH_DELAY) elapses: the next iteration starts its batch.
BatchDelayElapsed ==
  /\ sched = "batchDelay"
  /\ batchIndex' = batchIndex + 1
  /\ task' = StartBatch(batchIndex + 1)
  /\ completion' = << >>
  /\ sched' = "awaitAll"
  /\ UNCHANGED << ui, derivation, provider, count, estimate, addresses, onProgress, results, completedCount, progress,
                  settled, batchDelays >>

Next ==
  \/ Call
  \/ \E i \in 1..Len(addresses), response \in Responses : Respond(i, response)
  \/ \E i \in 1..Len(addresses) : RetryDelayElapsed(i)
  \/ GatherBatch
  \/ BatchDelayElapsed

Spec == Init /\ [][Next]_vars

SpecGroups == InitGroups /\ [][Next]_vars

(***************************************************************************)
(* A call of estimateGeocodingTime(count), outside any run of              *)
(* geocodeAddresses.                                                       *)
(***************************************************************************)
MaxCount == 125

InitEstimate ==
  /\ count \in 0..MaxCount
  /\ estimate = Null
  /\ addresses = << >>
  /\ onProgress = FALSE
  /\ sched = "idle"
  /\ batchIndex = 0
  /\ results = << >>
  /\ completedCount = 0
  /\ progress = << >>
  /\ task = << >>
  /\ settled = << >>
  /\ completion = << >>
  /\ batchDelays = 0
  /\ provider = << >>
  /\ derivation = NoDerivation
  /\ ui = Null

Estimate ==
  /\ estimate = Null
  /\ estimate' = Some(estimateGeocodingTime(count))
  /\ UNCHANGED << ui, derivation, provider, count, addresses, onProgress, sched, batchIndex, results,
                  completedCount, progress, task, settled, completion,
                  batchDelays >>

NextEstimate == Estimate

SpecEstimate == InitEstimate /\ [][NextEstimate]_vars

\* A run over OracleAddrs addresses whose chains share queries, against a
\* provider that answers by (query, attempt number).
OracleAddrs == 3
OracleList ==
  [ k \in 1..OracleAddrs |->
      IF k % 3 = 1 THEN Corpus[1] ELSE IF k % 3 = 2 THEN Corpus[6] ELSE Corpus[4] ]

InitOracle ==
  /\ addresses = OracleList
  /\ onProgress = FALSE
  /\ sched = "idle"
  /\ batchIndex = 0
  /\ results = << >>
  /\ completedCount = 0
  /\ progress = << >>
  /\ task = [ i \in 1..Len(addresses) |-> PendingTask ]
  /\ settled = [ i \in 1..Len(addresses) |-> << >> ]
  /\ completion = << >>
  /\ batchDelays = 0
  /\ count = 0
  /\ estimate = Null
  /\ provider = << >>
  /\ derivation = NoDerivation
  /\ ui = Null

NextOracle ==
  \/ Call
  \/ \E i \in 1..Len(addresses), response \in Responses :
       ProviderResponds(i, response)
  \/ \E i \in 1..Len(addresses) : RetryDelayElapsed(i)
  \/ GatherBatch
  \/ BatchDelayElapsed

SpecOracle == InitOracle /\ [][NextOracle]_vars

\* A run over one address whose five strategies send five different
\* queries: `provider` then holds one entry per request answered.
InitBudget ==
  /\ addresses = << Corpus[3] >>
  /\ onProgress = FALSE
  /\ sched = "idle"
  /\ batchIndex = 0
  /\ results = << >>
  /\ completedCount = 0
  /\ progress = << >>
  /\ task = [ i \in 1..Len(addresses) |-> PendingTask ]
  /\ settled = [ i \in 1..Len(addresses) |-> << >> ]
  /\ completion = << >>
  /\ batchDelays = 0
  /\ count = 0
  /\ estimate = Null
  /\ provider = << >>
  /\ derivation = NoDerivation
  /\ ui = Null

\* The steps of a run over a one-address list: its only batch is the last,
\* so the loop never reaches await delay(BATCH_DELAY).
NextBudget ==
  \/ Call
  \/ \E i \in 1..Len(addresses), response \in Responses :
       ProviderResponds(i, response)
  \/ \E i \in 1..Len(addresses) : RetryDelayElapsed(i)
  \/ GatherBatch

SpecBudget == InitBudget /\ [][NextBudget]_vars

\* A run over LiveAddrs addresses in which every request is eventually
\* answered, every delay eventually elapses, and the event loop eventually
\* resumes the loop of geocodeAddresses once the promises it awaits are
\* fulfilled.
LiveAddrs == 3
LiveList ==
  [ k \in 1..LiveAddrs |->
      IF k % 3 = 1 THEN Corpus[2] ELSE IF k % 3 = 2 THEN Corpus[4] ELSE Corpus[6] ]

InitLive ==
  /\ addresses = LiveList
  /\ onProgress = TRUE
  /\ sched = "idle"
  /\ batchIndex = 0
  /\ results = << >>
  /\ completedCount = 0
  /\ progress = << >>
  /\ task = [ i \in 1..Len(addresses) |-> PendingTask ]
  /\ settled = [ i \in 1..Len(addresses) |-> << >> ]
  /\ completion = << >>
  /\ batchDelays = 0
  /\ count = 0
  /\ estimate = Null
  /\ provider = << >>
  /\ derivation = NoDerivation
  /\ ui = Null

Fairness ==
  /\ \A i \in 1..LiveAddrs :
       WF_vars(\E response \in Responses : Respond(i, response))
  /\ \A i \in 1..LiveAddrs : WF_vars(RetryDelayElapsed(i))
  /\ WF_vars(GatherBatch)
  /\ WF_vars(BatchDelayElapsed)

SpecLive == InitLive /\ [][Next]_vars /\ Fairness

(***************************************************************************)
(* The derivations of geocodeSingleAddress on one address text: the        *)
(* normalisation, then the street/city and the ZIP/postal-code queries     *)
(* derived from the normalized text.                                       *)
(***************************************************************************)
MaxTokens == 3

RECURSIVE ConcatAll(_)
ConcatAll(seq) == IF seq = << >> THEN "" ELSE Head(seq) \o ConcatAll(Tail(seq))

\* The texts made of at most k of the given pieces.
Texts(pieces, k) ==
  { ConcatAll(f) : f \in UNION { [ 1..m -> pieces ] : m \in 0..k } }

RepairPieces == { "AZ", " 1234", "X", " ", "5", "," }
SegmentPieces == { "Pine St", ", Austin", ", TX", ", TX 78701", "-1234", "," }
PostalPieces == { "S4N", " 2C6", "2C6", " 62704", " 62704-1234", "7" }

\* A text in which the Canadian pattern matches before the US pattern does.
BothPatterns == "Reno SK S4N 2C6 X NV 89501"

\* A text with two ZIP codes in need of repair.
TwoRepairs == "Tempe AZ 1234, Boston MA 2134"

AddressTexts ==
  { Corpus[k] : k \in 1..Len(Corpus) }
    \cup { TwoRepairs, BothPatterns, "Reno SK S4N 2C6" }
    \cup Texts(RepairPieces, MaxTokens)
    \cup Texts(SegmentPieces, MaxTokens)
    \cup Texts(PostalPieces, MaxTokens)
    \cup Texts({ "Reno", " NV", ", NV", " 89501" }, MaxTokens)
    \cup Texts({ "AZ", " ", "\t", "1234" }, MaxTokens)

InitStrings ==
  /\ derivation \in { Underived(raw) : raw \in AddressTexts }
  /\ addresses = << >>
  /\ onProgress = FALSE
  /\ sched = "idle"
  /\ batchIndex = 0
  /\ results = << >>
  /\ completedCount = 0
  /\ progress = << >>
  /\ task = << >>
  /\ settled = << >>
  /\ completion = << >>
  /\ batchDelays = 0
  /\ count = 0
  /\ estimate = Null
  /\ provider = << >>
  /\ ui = Null

StringsUnchanged ==
  UNCHANGED << addresses, onProgress, sched, batchIndex, results,
               completedCount, progress, task, settled, completion,
               batchDelays, count, estimate, provider, ui >>

\* let normalized = address.replace(...).trim(); normalized = fixZipCode(normalized)
NormalizeAddress ==
  /\ derivation.normalized = Null
  /\ derivation' = [ derivation EXCEPT !.normalized = Some(Normalize(derivation.raw)) ]
  /\ StringsUnchanged

\* The derivations are made in the order of the strategies that use them.
\* const streetCity = extractStreetCity(normalized)
DeriveStreetCity ==
  /\ derivation.normalized # Null
  /\ derivation.streetCity = Null
  /\ derivation' =
       [ derivation EXCEPT
           !.streetCity = Some(extractStreetCity(derivation.normalized[1])) ]
  /\ StringsUnchanged

\* const zipCode = extractZipCode(normalized); if (zipCode) the query of
\* strategy 5 is zipCode.
DeriveZipCode ==
  /\ derivation.cityState # Null
  /\ derivation.zipCode = Null
  /\ derivation' =
       [ derivation EXCEPT
           !.zipCode = Some(extractZipCode(derivation.normalized[1])),
           !.zipQuery = Some(StrategyQuery(5, derivation.normalized[1])) ]
  /\ StringsUnchanged

\* const cityState = extractCityState(normalized); if (cityState) the query
\* of strategy 4 is cityState.
DeriveCityState ==
  /\ derivation.streetCity # Null
  /\ derivation.cityState = Null
  /\ derivation' =
       [ derivation EXCEPT
           !.cityState = Some(extractCityState(derivation.normalized[1])),
           !.cityQuery = Some(StrategyQuery(4, derivation.normalized[1])) ]
  /\ StringsUnchanged

\* The normalization of geocodeSingleAddress applied to its own result,
\* once the derivations of the strategies are made.
NormalizeAgain ==
  /\ derivation.zipCode # Null
  /\ derivation.renormalized = Null
  /\ derivation' =
       [ derivation EXCEPT
           !.renormalized = Some(Normalize(derivation.normalized[1])) ]
  /\ StringsUnchanged

NextStrings ==
  \/ NormalizeAddress
  \/ NormalizeAgain
  \/ DeriveStreetCity
  \/ DeriveCityState
  \/ DeriveZipCode

SpecStrings == InitStrings /\ [][NextStrings]_vars

(***************************************************************************)
(* The LocationInput component (frontend/src/components/LocationInput.jsx) *)
(* and its handler handleAddLocations, which runs geocodeAddresses.        *)
(***************************************************************************)
RECURSIVE ToLowerCase(_)
ToLowerCase(s) ==
  IF s = "" THEN "" ELSE ToLowerCh(Ch(s, 1)) \o ToLowerCase(SubSeq(s, 2, Len(s)))

RECURSIVE ToUpperCase(_)
ToUpperCase(s) ==
  IF s = "" THEN ""
  ELSE (IF Ch(s, 1) \in LowerSet
          THEN Ch(UpperSeq, CHOOSE i \in 1..26 : Ch(LowerSeq, i) = Ch(s, 1))
          ELSE Ch(s, 1))
         \o ToUpperCase(SubSeq(s, 2, Len(s)))

\* String.prototype.includes
Includes(s, sub) ==
  \E p \in 1..(Len(s) + 1) :
    p + Len(sub) - 1 <= Len(s) /\ SubSeq(s, p, p + Len(sub) - 1) = sub

\* String.prototype.split(sep) for a separator of one character.
\* The segments from position p on.
RECURSIVE SplitOn(_, _, _)
SplitOn(s, sep, p) ==
  LET seps == { k \in p..Len(s) : Ch(s, k) = sep }
      c == IF seps = { } THEN Len(s) + 1
           ELSE CHOOSE k \in seps : \A j \in seps : k <= j
  IN  IF c > Len(s)
        THEN << SubSeq(s, p, Len(s)) >>
        ELSE << SubSeq(s, p, c - 1) >> \o SplitOn(s, sep, c + 1)

\* zip.replace(/\D/g, '')
RECURSIVE DigitsOnly(_)
DigitsOnly(s) ==
  IF s = "" THEN ""
  ELSE (IF Ch(s, 1) \in DigitSet THEN Ch(s, 1) ELSE "")
         \o DigitsOnly(SubSeq(s, 2, Len(s)))

stateMap ==
  ("alabama" :> "AL") @@ ("alaska" :> "AK") @@ ("arizona" :> "AZ")
  @@ ("arkansas" :> "AR") @@ ("california" :> "CA") @@ ("colorado" :> "CO")
  @@ ("connecticut" :> "CT") @@ ("delaware" :> "DE") @@ ("florida" :> "FL")
  @@ ("georgia" :> "GA") @@ ("hawaii" :> "HI") @@ ("idaho" :> "ID")
  @@ ("illinois" :> "IL") @@ ("indiana" :> "IN") @@ ("iowa" :> "IA")
  @@ ("kansas" :> "KS") @@ ("kentucky" :> "KY") @@ ("louisiana" :> "LA")
  @@ ("maine" :> "ME") @@ ("maryland" :> "MD") @@ ("massachusetts" :> "MA")
  @@ ("michigan" :> "MI") @@ ("minnesota" :> "MN") @@ ("mississippi" :> "MS")
  @@ ("missouri" :> "MO") @@ ("montana" :> "MT") @@ ("nebraska" :> "NE")
  @@ ("nevada" :> "NV") @@ ("new hampshire" :> "NH") @@ ("new jersey" :> "NJ")
  @@ ("new mexico" :> "NM") @@ ("new york" :> "NY")
  @@ ("north carolina" :> "NC") @@ ("north dakota" :> "ND") @@ ("ohio" :> "OH")
  @@ ("oklahoma" :> "OK") @@ ("oregon" :> "OR") @@ ("pennsylvania" :> "PA")
  @@ ("rhode island" :> "RI") @@ ("south carolina" :> "SC")
  @@ ("south dakota" :> "SD") @@ ("tennessee" :> "TN") @@ ("texas" :> "TX")
  @@ ("utah" :> "UT") @@ ("vermont" :> "VT") @@ ("virginia" :> "VA")
  @@ ("washington" :> "WA") @@ ("west virginia" :> "WV")
  @@ ("wisconsin" :> "WI") @@ ("wyoming" :> "WY")
  @@ ("ontario" :> "ON") @@ ("quebec" :> "QC") @@ ("british columbia" :> "BC")
  @@ ("alberta" :> "AB") @@ ("manitoba" :> "MB") @@ ("saskatchewan" :> "SK")
  @@ ("nova scotia" :> "NS") @@ ("new brunswick" :> "NB")
  @@ ("newfoundland" :> "NL") @@ ("prince edward island" :> "PE")
  @@ ("northwest territories" :> "NT") @@ ("yukon" :> "YT")
  @@ ("nunavut" :> "NU")

\* headers.findIndex(h => h.includes(w1) || h.includes(w2)), 1-based; 0
\* stands for -1.
FindIndex(headers, words) ==
  LET hits == { i \in 1..Len(headers) : \E w \in words : Includes(headers[i], w) }
  IN  IF hits = { } THEN 0 ELSE CHOOSE i \in hits : \A j \in hits : i <= j

\* line.split('\t').map(f => f.trim())
TrimmedFields(line) ==
  LET fields == SplitOn(line, "\t", 1)
  IN  [ i \in 1..Len(fields) |-> Trim(fields[i]) ]

\* The address built from one data row: << >> when the row gives no part.
RowAddress(headers, line) ==
  LET lower == [ i \in 1..Len(headers) |-> ToLowerCase(headers[i]) ]
      streetIdx == FindIndex(lower, { "street", "address" })
      cityIdx == FindIndex(lower, { "city" })
      stateIdx == FindIndex(lower, { "state", "province" })
      zipIdx == FindIndex(lower, { "zip", "postal" })
      countryIdx == FindIndex(lower, { "country" })
      fields == TrimmedFields(line)
      \* idx >= 0 && fields[idx]: the field, or "" when there is none.
      Field(fs, idx) == IF idx >= 1 /\ idx <= Len(fs) THEN fs[idx] ELSE ""
      stateInput == ToLowerCase(Trim(Field(fields, stateIdx)))
      stateAbbr == IF stateInput \in DOMAIN stateMap
                     THEN stateMap[stateInput]
                     ELSE ToUpperCase(Field(fields, stateIdx))
      digits == DigitsOnly(Field(fields, zipIdx))
      zip == IF Len(digits) = 4 THEN "0" \o digits ELSE digits
      parts ==
        (IF Field(fields, streetIdx) # "" THEN << Field(fields, streetIdx) >> ELSE << >>)
        \o (IF Field(fields, cityIdx) # "" THEN << Field(fields, cityIdx) >> ELSE << >>)
        \o (IF Field(fields, stateIdx) # "" THEN << stateAbbr >> ELSE << >>)
        \o (IF Field(fields, zipIdx) # "" THEN << zip >> ELSE << >>)
        \o (IF Field(fields, countryIdx) # "" THEN << Field(fields, countryIdx) >> ELSE << >>)
  IN  IF Len(parts) > 0 THEN << JoinWith(parts, ", ") >> ELSE << >>

\* for (let i = 1; i < lines.length; i++), from the (1-based) line i on.
RECURSIVE RowsFrom(_, _, _)
RowsFrom(headers, lines, i) ==
  IF i > Len(lines) THEN << >>
  ELSE (IF Trim(lines[i]) = "" THEN << >> ELSE RowAddress(headers, Trim(lines[i])))
         \o RowsFrom(headers, lines, i + 1)

parseAddresses(text) ==
  LET lines == SplitOn(Trim(text), "\n", 1)
  IN  IF Len(lines) > 1
        THEN RowsFrom(TrimmedFields(lines[1]), lines, 2)
        ELSE IF Trim(lines[1]) # "" THEN << Trim(lines[1]) >> ELSE << >>

\* What the textarea can hold: nothing, blanks, one line (an address
\* without header), a header that names no address column, headers with
\* one, two and three data rows (an empty row among them).
InputTexts ==
  { "", " \n", "62704", "Name\nBob",
    "City\tState\nSpringfield\tillinois",
    "City\tState\tZip\nSpringfield\tillinois\n\n62704",
    "City\tState\nSpringfield\tIL\n62704\nSpringfield\tillinois" }

ParsedInput == [ text \in InputTexts |-> parseAddresses(text) ]

\* results.filter(r => r.success), results.filter(r => !r.success)
\* A variant that forwards every result.
ForwardsEveryResult(rs) == rs

Successful(rs) == SelectSeq(rs, LAMBDA r : r.success)

NoProgress == [ current |-> 0, total |-> 0 ]

\* `Warning: ${failed.length} address(es) could not be found: ${...}`
WarningText(failed) ==
  "Warning: " \o ToString(Len(failed))
    \o " address(es) could not be found: "
    \o JoinWith([ k \in 1..Len(failed) |-> failed[k].address ], ", ")

\* A variant of the finally clause that leaves the loading flag as it is.
FinallyKeepsLoading(u) ==
  [ u EXCEPT !.progress = NoProgress, !.estimatedTime = "" ]

\* finally { setLoading(false); setProgress({ current: 0, total: 0 });
\* setEstimatedTime('') }
Finally(u) ==
  [ u EXCEPT !.loading = FALSE, !.progress = NoProgress, !.estimatedTime = "" ]

\* catch (err) { setError(err.message || 'Failed to geocode addresses') }
Caught(u, message) ==
  [ u EXCEPT
      !.error = Some(IF message # "" THEN message ELSE "Failed to geocode addresses"),
      !.exit = "thrown" ]

\* handleAddLocations from the return of geocodeAddresses with rs to the
\* end of its try block; throws tells whether onLocationsAdded throws (with
\* the message "callback failed").
AfterGeocoding(u, rs, throws) ==
  LET successful == Successful(rs)
      failed == SelectSeq(rs, LAMBDA r : ~r.success)
      called == [ u EXCEPT !.got = rs, !.added = Append(u.added, successful) ]
  IN  IF Len(successful) = 0
        THEN [ u EXCEPT
                 !.got = rs,
                 !.error = Some("Could not geocode any addresses. Please check the format."),
                 !.loading = FALSE,
                 !.progress = NoProgress,
                 !.exit = "no success" ]
      ELSE IF throws
        THEN Caught(called, "callback failed")
      ELSE IF Len(failed) > 0
        THEN [ called EXCEPT !.error = Some(WarningText(failed)), !.exit = "partial" ]
      ELSE [ called EXCEPT !.inputText = "", !.exit = "full" ]

\* The textarea is edited or pasted into; it is disabled while loading.
setInputText(text) ==
  /\ ~ui.loading
  /\ ui' = [ ui EXCEPT !.inputText = text ]
  /\ UNCHANGED << addresses, onProgress, sched, batchIndex, results,
                  completedCount, progress, task, settled, completion,
                  batchDelays, count, estimate, provider, derivation >>

\* The Clear button, disabled while loading.
handleClear ==
  /\ ~ui.loading
  /\ ui' = [ ui EXCEPT !.inputText = "", !.error = Null ]
  /\ UNCHANGED << addresses, onProgress, sched, batchIndex, results,
                  completedCount, progress, task, settled, completion,
                  batchDelays, count, estimate, provider, derivation >>

\* The Add Locations button, disabled while loading: handleAddLocations up
\* to one of its early returns or, through the call of geocodeAddresses, to
\* the first await Promise.all.
handleAddLocations ==
  /\ ~ui.loading
  /\ LET started == [ ui EXCEPT !.error = Null, !.loading = TRUE,
                                !.progress = NoProgress,
                                !.added = << >>, !.got = << >>, !.exit = "" ]
         parsed == ParsedInput[ui.inputText]
     IN  IF Trim(ui.inputText) = ""
           THEN /\ ui' = [ started EXCEPT
                             !.error = Some("Please enter some addresses"),
                             !.loading = FALSE,
                             !.exit = "blank" ]
                /\ UNCHANGED << addresses, onProgress, sched, batchIndex,
                                results, completedCount, progress, task,
                                settled, completion, batchDelays >>
         ELSE IF Len(parsed) = 0
           THEN /\ ui' = Finally([ started EXCEPT
                                     !.error = Some("No addresses found"),
                                     !.loading = FALSE,
                                     !.exit = "none parsed" ])
                /\ UNCHANGED << addresses, onProgress, sched, batchIndex,
                                results, completedCount, progress, task,
                                settled, completion, batchDelays >>
         ELSE /\ ui' = [ started EXCEPT
                           !.estimatedTime = estimateGeocodingTime(Len(parsed)),
                           !.pc = "awaiting" ]
              /\ addresses' = parsed
              /\ onProgress' = TRUE
              /\ sched' = "awaitAll"
              /\ batchIndex' = 0
              /\ results' = << >>
              /\ completedCount' = 0
              /\ progress' = << >>
              /\ task' = [ i \in 1..Len(parsed) |->
                             IF i <= BATCH_SIZE
                               THEN StartTask(parsed[i]) ELSE PendingTask ]
              /\ settled' = [ i \in 1..Len(parsed) |-> << >> ]
              /\ completion' = << >>
              /\ batchDelays' = 0
  /\ UNCHANGED << count, estimate, provider, derivation >>

\* A batch is gathered during a run of the component: the progress callback
\* (current, total, result) => setProgress({ current, total }) is called for
\* each member, the last call giving the progress shown.
GatherBatchReports ==
  /\ ui.pc = "awaiting"
  /\ BatchGathered
  /\ ui' = [ ui EXCEPT
               !.progress = [ current |-> progress'[Len(progress')][1],
                              total |-> progress'[Len(progress')][2] ] ]

\* geocodeAddresses has returned or thrown: handleAddLocations goes on to
\* its end.
GeocodingDone ==
  /\ ui.pc = "awaiting"
  /\ sched \in { "returned", "thrown" }
  /\ \E throws \in BOOLEAN :
       ui' = [ Finally(IF sched = "thrown"
                         THEN Caught(ui, RejectionMessage)
                         ELSE AfterGeocoding(ui, results, throws))
               EXCEPT !.pc = "idle" ]
  /\ UNCHANGED << addresses, onProgress, sched, batchIndex, results,
                  completedCount, progress, task, settled, completion,
                  batchDelays, count, estimate, provider, derivation >>

InitInput ==
  /\ ui = IdleInput("")
  /\ addresses = << >>
  /\ onProgress = TRUE
  /\ sched = "idle"
  /\ batchIndex = 0
  /\ results = << >>
  /\ completedCount = 0
  /\ progress = << >>
  /\ task = << >>
  /\ settled = << >>
  /\ completion = << >>
  /\ batchDelays = 0
  /\ count = 0
  /\ estimate = Null
  /\ provider = << >>
  /\ derivation = NoDerivation

NextInput ==
  \/ \E text \in InputTexts : setInputText(text)
  \/ handleClear
  \/ handleAddLocations
  \/ \E i \in 1..Len(addresses), response \in Responses : Respond(i, response)
  \/ \E i \in 1..Len(addresses) : RetryDelayElapsed(i)
  \/ GatherBatchReports
  \/ BatchDelayElapsed
  \/ GeocodingDone

SpecInput == InitInput /\ [][NextInput]_vars

(***************************************************************************)
(* Properties.                                                             *)
(***************************************************************************)
Tasks == 1..Len(addresses)

\* The last response of frame t was a match / an empty match set / a
\* response with the given status.
GotMatch(t) ==
  /\ t.last # << >>
  /\ t.last[1].kind = "response"
  /\ t.last[1].status = 200
  /\ Len(t.last[1].data) > 0
GotStatus(t, status) ==
  /\ t.last # << >>
  /\ t.last[1].kind = "response"
  /\ t.last[1].status = status

\* The promise of address i is fulfilled with a Success / with a Failure.
Succeeded(i) ==
  /\ settled[i] # << >>
  /\ settled[i][1].state = "fulfilled"
  /\ settled[i][1].value.success = TRUE
Failed(i) ==
  /\ settled[i] # << >>
  /\ settled[i][1].state = "fulfilled"
  /\ settled[i][1].value.success = FALSE

\* A result is a Success, or a Failure with an error text.
IsSuccess(r) == r.success = TRUE /\ "error" \notin DOMAIN r
IsFailure(r) == r.success = FALSE /\ "error" \in DOMAIN r /\ r.error # ""

\* C1: whatever the order in which the resolutions of a batch complete, the
\* results follow the input: results[i].address is the raw addresses[i], and
\* the list returned has exactly Len(addresses) elements.
C1_ResultsFollowInput ==
  /\ Len(results) <= Len(addresses)
  /\ \A i \in 1..Len(results) : results[i].address = addresses[i]
  /\ sched = "returned" => Len(results) = Len(addresses)

\* The run has returned, the second address of the batch completed before
\* the first, and its raw form differs from its normalized form.
C1_Witness ==
  /\ sched = "returned"
  /\ completion = << 2, 1 >>
  /\ Len(results) = 2
  /\ results[2].address = "Phoenix AZ 1234"
  /\ results[2].success
  /\ results[2].name = "Phoenix AZ 01234"

\* C2: no error leaves geocodeAddresses: every promise of
\* geocodeSingleAddress is fulfilled with a Success or with a Failure that
\* has an error text, whatever the provider did, and the run returns one
\* result per address.
C2_NeverThrows ==
  /\ sched # "thrown"
  /\ \A i \in Tasks :
       settled[i] # << >> =>
         /\ settled[i][1].state = "fulfilled"
         /\ IsSuccess(settled[i][1].value) \/ IsFailure(settled[i][1].value)
  /\ \A k \in 1..Len(results) : IsSuccess(results[k]) \/ IsFailure(results[k])
  /\ sched = "returned" => Len(results) = Len(addresses)

\* A run of two batches has returned: the first address failed on a
\* transport rejection, the second on a persistent 503, the third matched.
C2_Witness ==
  /\ sched = "returned"
  /\ Len(results) = 3
  /\ IsFailure(results[1]) /\ results[1].error = "Failed to fetch"
  /\ IsFailure(results[2]) /\ results[2].error = "HTTP 503"
  /\ IsSuccess(results[3])

\* C3: once a call of an address returned a match, the address is resolved
\* to a Success and no further call is issued for it: the matching call is
\* the last call made, and no call before it matched.
C3_FirstMatchWins ==
  \A i \in Tasks :
    /\ GotMatch(task[i]) => task[i].pc = "done" /\ Succeeded(i)
    /\ \A k \in 1..Len(task[i].sent) :
         task[i].sent[k].answer = "match" => k = Len(task[i].sent)
    /\ Succeeded(i) =>
         /\ GotMatch(task[i])
         /\ task[i].sent[Len(task[i].sent)].answer = "match"
         /\ task[i].sent[Len(task[i].sent)].strategy = task[i].strategy

\* The third strategy of an address with five distinct queries matched
\* after two empty answers; strategies 4 and 5 were not called.
C3_Witness ==
  \E i \in Tasks :
    /\ addresses[i] = "Suite 200, 9 Pine St Austin, TX 78701"
    /\ Succeeded(i)
    /\ task[i].strategy = 3
    /\ Len(task[i].sent) = 3
    /\ task[i].sent[1].answer = "empty"
    /\ task[i].sent[2].answer = "empty"

\* The queries of the chain, computed from the normalized address by the
\* derivation functions themselves.
ChainQueries ==
  [ n \in { NormalizedOf[a] : a \in DOMAIN NormalizedOf } |->
      << Some(n), Some(simplifyAddress(n)), extractStreetCity(n),
         extractCityState(n), extractZipCode(n) >> ]

\* C4: the calls of an address are issued in chain order (Exact, Simplified,
\* StreetCity, CityState, ZipCode), starting with Exact, each with the query
\* of its strategy, and a call is issued only when every call before it
\* returned an empty match set; there is at most one unanswered call.
C4_ChainOrder ==
  \A i \in Tasks :
    /\ Len(task[i].sent) > 0 => task[i].sent[1].strategy = 1
    /\ \A k \in 1..Len(task[i].sent) :
         /\ task[i].sent[k].strategy \in 1..5
         /\ << task[i].sent[k].query >>
              = ChainQueries[task[i].normalized][task[i].sent[k].strategy]
         /\ k < Len(task[i].sent) =>
              /\ task[i].sent[k].strategy < task[i].sent[k + 1].strategy
              /\ task[i].sent[k].answer = "empty"

\* All five strategies of one address were called in turn, the fifth call
\* being in flight.
C4_Witness ==
  \E i \in Tasks :
    /\ Len(task[i].sent) = 5
    /\ task[i].pc = "fetching"
    /\ task[i].sent[5].strategy = 5
    /\ task[i].sent[5].query = "78701"

\* The level of a strategy.
LevelOf(s) ==
  CASE s = 1 -> "exact"
    [] s = 2 -> "simplified"
    [] s = 3 -> "street"
    [] s = 4 -> "city"
    [] s = 5 -> "zipcode"

\* C5: a Success carries the level of the strategy whose call returned the
\* match (exact, simplified, street, city, zipcode for strategies 1 to 5);
\* a Failure carries no precision.
C5_PrecisionOfMatchingStrategy ==
  /\ \A i \in Tasks :
       /\ Succeeded(i) =>
            /\ task[i].sent[Len(task[i].sent)].answer = "match"
            /\ "precision" \in DOMAIN settled[i][1].value
            /\ settled[i][1].value.precision
                 = LevelOf(task[i].sent[Len(task[i].sent)].strategy)
       /\ Failed(i) => "precision" \notin DOMAIN settled[i][1].value
  /\ \A k \in 1..Len(results) :
       IF results[k].success
         THEN /\ "precision" \in DOMAIN results[k]
              /\ results[k].precision \in { LevelOf(s) : s \in 1..5 }
         ELSE "precision" \notin DOMAIN results[k]

\* In one batch the ZIP-code strategy of one address matched and the
\* other address failed.
C5_Witness ==
  \E i, j \in Tasks :
    /\ Succeeded(i)
    /\ task[i].strategy = 5
    /\ settled[i][1].value.precision = "zipcode"
    /\ Failed(j)

\* C6: a strategy whose query is null, or equal to a query already sent for
\* the address, makes no call: the calls of one address carry non-empty,
\* pairwise different queries.
C6_NoQuerySentTwice ==
  \A i \in Tasks :
    \A k \in 1..Len(task[i].sent) :
      /\ task[i].sent[k].query # ""
      /\ \A j \in 1..(k - 1) : task[i].sent[j].query # task[i].sent[k].query

\* C7: attemptGeocode sends one query at most 3 times (MAX_RETRIES = 2
\* retries), retries on status 503 only, waits one retry delay before each
\* retry, and turns a 503 on the third request into the error "HTTP 503".
C7_RetryBound ==
  \A i \in Tasks :
    /\ task[i].fetches <= 3
    /\ task[i].delays <= 2
    /\ task[i].retryCount = task[i].fetches - 1 \/ task[i].fetches = 0
    /\ task[i].pc = "retryDelay" =>
         /\ GotStatus(task[i], 503)
         /\ task[i].delays = task[i].fetches
    /\ task[i].pc = "fetching" =>
         /\ task[i].delays = task[i].fetches - 1
         /\ task[i].fetches > 1 => GotStatus(task[i], 503)
    /\ (task[i].pc # "fetching" /\ task[i].fetches = 3 /\ GotStatus(task[i], 503)) =>
         /\ task[i].pc = "done"
         /\ Failed(i)
         /\ settled[i][1].value.error = "HTTP 503"

\* The third request of one query is in flight after two 503 answers and
\* two retry delays.
C7_Witness ==
  \E i \in Tasks :
    /\ task[i].pc = "fetching"
    /\ task[i].fetches = 3
    /\ task[i].delays = 2
    /\ task[i].transients = 2

\* C8: when the provider answers a query k times with 503 (k <= 2) and then
\* with a match, the address resolves to Success after exactly k retries
\* and k retry delays; a 503 that is one of the first two answers is always
\* retried.
C8_TransientThenMatch ==
  \A i \in Tasks :
    /\ (GotMatch(task[i]) /\ task[i].transients <= 2) =>
         /\ task[i].pc = "done"
         /\ Succeeded(i)
         /\ task[i].retryCount = task[i].transients
         /\ task[i].fetches = task[i].transients + 1
         /\ task[i].delays = task[i].transients
    /\ (GotStatus(task[i], 503) /\ task[i].transients <= 2) =>
         task[i].pc \in { "retryDelay", "fetching" }

\* A query was answered 503 twice and then matched: Success after two
\* retries and two retry delays.
C8_Witness ==
  \E i \in Tasks :
    /\ GotMatch(task[i])
    /\ task[i].transients = 2
    /\ task[i].retryCount = 2
    /\ task[i].delays = 2
    /\ Succeeded(i)

\* C9: a non-success status other than 503 is never retried: the address
\* ends at once as a Failure with the error "HTTP <status>", and the call
\* that got the status is the last call of the address.
C9_ErrorStatusEndsResolution ==
  \A i \in Tasks :
    /\ \A status \in { 429, 500 } :
         GotStatus(task[i], status) =>
           /\ task[i].pc = "done"
           /\ Failed(i)
           /\ status = 429 => settled[i][1].value.error = "HTTP 429"
           /\ status = 500 => settled[i][1].value.error = "HTTP 500"
           /\ task[i].fetches = task[i].transients + 1
           /\ task[i].delays = task[i].transients
    /\ \A k \in 1..Len(task[i].sent) :
         task[i].sent[k].answer = "error" => k = Len(task[i].sent)

\* The first call of an address that has four more strategies to try was
\* answered 429: the address failed after that one request.
C9_Witness ==
  \E i \in Tasks :
    /\ addresses[i] = "Suite 200, 9 Pine St Austin, TX 78701"
    /\ GotStatus(task[i], 429)
    /\ task[i].strategy = 1
    /\ task[i].fetches = 1
    /\ Len(task[i].sent) = 1
    /\ Failed(i)
    /\ settled[i][1].value.error = "HTTP 429"

\* C10: when a query is answered 503 on all three requests, the address
\* ends as a Failure and the strategies after that one make no call: a
\* call that ended on 503 is the last call of the address.
C10_ExhaustedRetriesEndResolution ==
  \A i \in Tasks :
    /\ (GotStatus(task[i], 503) /\ task[i].transients >= 3) =>
         /\ task[i].pc = "done"
         /\ Failed(i)
    /\ \A k \in 1..Len(task[i].sent) :
         task[i].sent[k].answer = "transient" => k = Len(task[i].sent)

\* The second strategy of an address with three more strategies to try was
\* answered 503 three times: the address failed, the calls stop there.
C10_Witness ==
  \E i \in Tasks :
    /\ addresses[i] = "Suite 200, 9 Pine St Austin, TX 78701"
    /\ task[i].strategy = 2
    /\ task[i].transients = 3
    /\ GotStatus(task[i], 503)
    /\ Len(task[i].sent) = 2
    /\ Failed(i)

\* The last response of frame t was a successful one with no match.
GotEmpty(t) ==
  /\ t.last # << >>
  /\ t.last[1].kind = "response"
  /\ t.last[1].status = 200
  /\ Len(t.last[1].data) = 0

\* Strategy s has a query to send for the normalized address n: its
\* derived query is not null and, for strategies 2 and 3, differs from the
\* queries derived before it.
Applies(n, s) ==
  CASE s = 1 -> TRUE
    [] s = 2 -> ChainQueries[n][2] # ChainQueries[n][1]
    [] s = 3 -> /\ ChainQueries[n][3] # Null
                /\ ChainQueries[n][3] # ChainQueries[n][1]
                /\ ChainQueries[n][3] # ChainQueries[n][2]
    [] s = 4 -> ChainQueries[n][4] # Null
    [] s = 5 -> ChainQueries[n][5] # Null

\* The strategies after s that have a query to send.
LaterStrategies(n, s) == { r \in 1..5 : r > s /\ Applies(n, r) }

\* The call of frame t that its last response answered.
AnsweredCall(t) ==
  IF t.pc = "fetching" THEN t.sent[Len(t.sent) - 1] ELSE t.sent[Len(t.sent)]

\* C11: a successful response with an empty match array is no error: the
\* resolution goes on with the call of the next strategy that has a query,
\* and ends as not found (never as a raised error) only when none is left.
C11_EmptyIsNotAnError ==
  \A i \in Tasks :
    GotEmpty(task[i]) =>
      /\ task[i].pc \in { "fetching", "done" }
      /\ task[i].pc = "fetching" => Len(task[i].sent) > 1
      /\ AnsweredCall(task[i]).answer = "empty"
      /\ IF LaterStrategies(task[i].normalized, AnsweredCall(task[i]).strategy) # {}
           THEN /\ task[i].pc = "fetching"
                /\ settled[i] = << >>
                /\ \A r \in LaterStrategies(task[i].normalized,
                                            AnsweredCall(task[i]).strategy) :
                     task[i].sent[Len(task[i].sent)].strategy <= r
                /\ task[i].sent[Len(task[i].sent)].strategy
                     \in LaterStrategies(task[i].normalized,
                                         AnsweredCall(task[i]).strategy)
           ELSE /\ task[i].pc = "done"
                /\ Failed(i)
                /\ settled[i][1].value.error
                     = "Address not found after trying all fallback strategies"

\* The exact query of an address got an empty match array and the call of
\* the simplified query is in flight.
C11_Witness ==
  \E i \in Tasks :
    /\ addresses[i] = "Suite 200, 9 Pine St Austin, TX 78701"
    /\ GotEmpty(task[i])
    /\ task[i].pc = "fetching"
    /\ Len(task[i].sent) = 2
    /\ task[i].sent[2].query = ", 9 Pine St Austin, TX 78701"

\* C12: when every call of an address got an empty match set, the result
\* is the Failure with the fixed not-found message and no coordinates, and
\* it comes only after every strategy that has a query made its call.
C12_NotFoundAfterAllStrategies ==
  \A i \in Tasks :
    /\ ( /\ task[i].pc = "done"
         /\ \A k \in 1..Len(task[i].sent) : task[i].sent[k].answer = "empty" ) =>
         /\ Failed(i)
         /\ settled[i][1].value.error
              = "Address not found after trying all fallback strategies"
    /\ ( /\ Failed(i)
         /\ settled[i][1].value.error
              = "Address not found after trying all fallback strategies" ) =>
         /\ \A k \in 1..Len(task[i].sent) : task[i].sent[k].answer = "empty"
         /\ { task[i].sent[k].strategy : k \in 1..Len(task[i].sent) }
              = { s \in 1..5 : Applies(task[i].normalized, s) }
         /\ DOMAIN settled[i][1].value = { "address", "success", "error" }

\* All five strategies of an address got an empty match set.
C12_Witness ==
  \E i \in Tasks :
    /\ addresses[i] = "Suite 200, 9 Pine St Austin, TX 78701"
    /\ Len(task[i].sent) = 5
    /\ GotEmpty(task[i])
    /\ Failed(i)
    /\ settled[i][1].value.error
         = "Address not found after trying all fallback strategies"

\* The frame of address i is between the issue of its first call and the
\* hand-over of its result.
Active(i) == task[i].pc \in { "fetching", "retryDelay", "done" }

\* C13: the batches are the slices {1,2}, {3,4}, ... of the input, taken in
\* order, with a barrier: while geocodeAddresses awaits a batch exactly the
\* addresses of that slice are started, and an address is started only
\* when every address of the earlier slices has its result (a Success or a
\* Failure) in the results.
C13_BatchBarrier ==
  /\ \A j \in Tasks :
       task[j].pc # "pending" =>
         \A i \in Tasks :
           (i - 1) \div 2 < (j - 1) \div 2 =>
             /\ task[i].pc = "returned"
             /\ i <= Len(results)
             /\ IsSuccess(results[i]) \/ IsFailure(results[i])
  /\ \A j \in Tasks : Active(j) => sched = "awaitAll" /\ (j - 1) \div 2 = batchIndex
  /\ sched = "awaitAll" =>
       \A j \in Tasks : (j - 1) \div 2 = batchIndex => Active(j)

\* The third address is being resolved; the first batch ended with a
\* Failure and a Success.
C13_Witness ==
  /\ Len(addresses) = 3
  /\ task[3].pc = "fetching"
  /\ Len(results) = 2
  /\ IsFailure(results[1])
  /\ IsSuccess(results[2])

\* The requests in flight.
InFlight == { i \in Tasks : task[i].pc = "fetching" }

\* C14: at most 2 requests are in flight at any moment, and they belong to
\* addresses of the current batch; the calls of batch g (addresses 2g+1 and
\* 2g+2) are all made after exactly g inter-batch delays, so a run over 4
\* addresses makes its calls in 2 groups, one delay apart.
C14_RequestsInFlight ==
  /\ Cardinality(InFlight) <= 2
  /\ \A i \in Tasks :
       task[i].pc \in { "fetching", "retryDelay" } =>
         /\ (i - 1) \div 2 = batchIndex
         /\ batchDelays = (i - 1) \div 2
  /\ Cardinality({ i \in Tasks : Active(i) }) <= 2
  /\ (sched = "returned" /\ Len(addresses) = 4) => batchIndex = 1 /\ batchDelays = 1

\* In a run over 4 addresses the third and the fourth request are in flight
\* together, after the results of the first two and one inter-batch delay.
C14_Witness ==
  /\ Len(addresses) = 4
  /\ InFlight = { 3, 4 }
  /\ Len(results) = 2
  /\ batchDelays = 1

\* C15: one inter-batch delay is made after each batch but the last: the
\* delays made so far number the batches ended before the current one, a
\* delay is made only while addresses remain, and a run over n addresses
\* returns after max(ceil(n/2) - 1, 0) delays, whether addresses failed or
\* not.
C15_InterBatchDelays ==
  /\ batchDelays = IF sched = "batchDelay" THEN batchIndex + 1 ELSE batchIndex
  /\ sched = "batchDelay" => Len(results) < Len(addresses)
  /\ 2 * batchDelays <= Len(results)
  /\ sched = "returned" =>
       batchDelays = IF Len(addresses) = 0 THEN 0
                     ELSE (Len(addresses) + 1) \div 2 - 1

\* A run over 3 addresses has returned after one delay; both addresses of
\* the first batch failed.
C15_Witness ==
  /\ sched = "returned"
  /\ Len(addresses) = 3
  /\ batchDelays = 1
  /\ IsFailure(results[1])
  /\ IsFailure(results[2])

\* C16: with a progress callback, one call is made per address that has its
\* result, Success or Failure: the k-th call carries completed = k and
\* total = Len(addresses), so the counts run 1, 2, ..., total without gap
\* or repeat, and the run returns after Len(addresses) calls.  Without a
\* callback no call is made.
C16_ProgressCounts ==
  /\ onProgress => Len(progress) = Len(results)
  /\ ~onProgress => progress = << >>
  /\ \A k \in 1..Len(progress) :
       /\ progress[k][1] = k
       /\ progress[k][1] <= progress[k][2]
       /\ progress[k][2] = Len(addresses)
       /\ IsSuccess(progress[k][3]) \/ IsFailure(progress[k][3])
  /\ (sched = "returned" /\ onProgress) => Len(progress) = Len(addresses)

\* A run over 3 addresses has returned after the calls (1,3), (2,3), (3,3),
\* the second one for a Failure.
C16_Witness ==
  /\ sched = "returned"
  /\ onProgress
  /\ Len(progress) = 3
  /\ progress[3][1] = 3
  /\ IsFailure(progress[2][3])
  /\ IsSuccess(progress[3][3])

\* Address j is a member of the batch of address i and is still being
\* resolved.
RunningSibling(i, j) ==
  /\ j # i
  /\ (j - 1) \div 2 = (i - 1) \div 2
  /\ task[j].pc \in { "fetching", "retryDelay" }

SecondsFor(c) == IF (c + 1) \div 2 = 0 THEN 1 ELSE ((c + 1) \div 2 - 1) + 1

\* C19: for a count >= 0, with numBatches = ceil(count / 2) and
\* seconds = max(numBatches - 1, 0) * 1 + 1, estimateGeocodingTime returns
\* "~<seconds> seconds" when seconds < 60 and the minutes form with
\* ceil(seconds / 60) from seconds = 60 on: estimate(5) is "~3 seconds",
\* estimate(118) is "~59 seconds" and estimate(119), the first count with
\* 60 seconds, is "~1 minute".
C19_EstimateFormula ==
  estimate # Null =>
    /\ SecondsFor(count) < 60 =>
         estimate[1] = "~" \o ToString(SecondsFor(count)) \o " seconds"
    /\ SecondsFor(count) >= 60 =>
         estimate[1]
           \in { "~" \o ToString((SecondsFor(count) + 59) \div 60) \o unit :
                 unit \in { " minute", " minutes" } }
    /\ count = 0 => estimate[1] = "~1 seconds"
    /\ count = 5 => estimate[1] = "~3 seconds"
    /\ count = 118 => estimate[1] = "~59 seconds"
    /\ count = 119 => estimate[1] = "~1 minute"
    /\ count = 121 => estimate[1] = "~2 minutes"

\* The estimate for 119 addresses (60 batches, 60 seconds) is the first one
\* given in minutes.
C19_Witness == count = 119 /\ estimate = << "~1 minute" >>

\* C20: the unit word of the estimate is singular exactly when the number
\* displayed is 1.
C20_SingularPlural ==
  estimate # Null =>
    \E n \in 0..(MaxCount + 1), unit \in { "second", "seconds", "minute", "minutes" } :
      /\ estimate[1] = "~" \o ToString(n) \o " " \o unit
      /\ unit \in { "second", "minute" } <=> n = 1

\* C21: the estimate uses the scheduler's batch size and inter-batch delay,
\* so that for a run over n addresses the seconds it assumes are one per
\* inter-batch delay the run performed, plus the fixed second.
C21_EstimateFollowsScheduler ==
  /\ ESTIMATE_BATCH_SIZE = BATCH_SIZE
  /\ BATCH_DELAY_SECONDS * 1000 = BATCH_DELAY
  /\ sched = "returned" =>
       EstimateSeconds(Len(addresses))
         = (batchDelays * BATCH_DELAY) \div 1000 + 1

C21_Witness ==
  /\ sched = "returned"
  /\ Len(addresses) = 3
  /\ batchDelays = 1
  /\ EstimateSeconds(Len(addresses)) = 2

\* C22 as stated: the name of every Success is the query of the strategy
\* whose call matched.
C22_NameIsMatchedQuery ==
  \A i \in Tasks :
    Succeeded(i) =>
      settled[i][1].value.name = task[i].sent[Len(task[i].sent)].query

\* C22, amended: the name of every Success is the normalized address, which
\* is the query of the Exact call, whichever strategy matched; the Success
\* also carries the raw address, the coordinates parsed from the match and
\* the display name of the match.
C22_NameIsNormalizedAddress ==
  \A i \in Tasks :
    Succeeded(i) =>
      LET r == settled[i][1].value
          m == task[i].last[1].data[1]
      IN  /\ r.name = task[i].sent[1].query
          /\ r.name = NormalizedOf[addresses[i]]
          /\ r.address = addresses[i]
          /\ m.lat = "39.7817" =>
               r.lat = [ nan |-> FALSE, mantissa |-> 397817, scale |-> 4 ]
          /\ m.lon = "-89.650" =>
               r.lng = [ nan |-> FALSE, mantissa |-> 0 - 8965, scale |-> 2 ]
          /\ r.displayName = m.display_name

\* The ZIP strategy of an address in need of repair matched on "01234":
\* the name is the repaired address, neither the raw one nor the query.
C22_Witness ==
  \E i \in Tasks :
    /\ addresses[i] = "Phoenix AZ 1234"
    /\ Succeeded(i)
    /\ task[i].strategy = 5
    /\ task[i].sent[Len(task[i].sent)].query = "01234"
    /\ settled[i][1].value.name = "Phoenix AZ 01234"
    /\ settled[i][1].value.lat.mantissa = 397817

\* The precision levels below EXACT.
Degraded ==
  { PRECISION.SIMPLIFIED, PRECISION.STREET, PRECISION.CITY, PRECISION.ZIPCODE }

\* Result r has a note, and the note is not the empty string.
HasNote(r) == "note" \in DOMAIN r /\ r.note # ""

\* C23: a Success has a non-empty note exactly when its precision is
\* degraded, and no note field when its precision is EXACT; an address with
\* "Suite 200" whose Exact call found nothing and whose Simplified call
\* matched is a SIMPLIFIED Success with a non-empty note.
C23_NoteIffDegraded ==
  /\ \A k \in 1..Len(results) :
       results[k].success =>
         /\ results[k].precision \in Degraded <=> HasNote(results[k])
         /\ results[k].precision = PRECISION.EXACT
              <=> "note" \notin DOMAIN results[k]
  /\ \A i \in Tasks :
       Succeeded(i) =>
         LET r == settled[i][1].value
         IN  /\ r.precision \in Degraded <=> HasNote(r)
             /\ r.precision = PRECISION.EXACT <=> "note" \notin DOMAIN r
             /\ task[i].strategy = 1 <=> r.precision = PRECISION.EXACT
             /\ ( /\ addresses[i] = "Suite 200, 9 Pine St Austin, TX 78701"
                  /\ task[i].strategy = 2 )
                  => r.precision = PRECISION.SIMPLIFIED /\ HasNote(r)

\* The "Suite 200" address: Exact found nothing, Simplified matched, and
\* the Success is SIMPLIFIED with its note.
C23_Witness ==
  \E i \in Tasks :
    /\ addresses[i] = "Suite 200, 9 Pine St Austin, TX 78701"
    /\ Succeeded(i)
    /\ Len(task[i].sent) = 2
    /\ task[i].sent[1].answer = "empty"
    /\ task[i].sent[2].query = ", 9 Pine St Austin, TX 78701"
    /\ settled[i][1].value.precision = PRECISION.SIMPLIFIED
    /\ settled[i][1].value.note
         = "Building/suite designation removed for successful geocoding"

\* Result r is one of the two variants, with the fields of that variant only.
OneVariant(r) ==
  /\ r.success \in BOOLEAN
  /\ "address" \in DOMAIN r
  /\ r.success = FALSE =>
       /\ "error" \in DOMAIN r
       /\ r.error # ""
       /\ DOMAIN r \cap { "lat", "lng", "precision", "displayName" } = { }
  /\ r.success = TRUE =>
       /\ { "lat", "lng", "precision" } \subseteq DOMAIN r
       /\ "error" \notin DOMAIN r

\* C24: every result is exactly one of the two variants: a Failure has an
\* error description and no lat, lng, precision or display name; a Success
\* has lat, lng and precision and no error field.
C24_ExactlyOneVariant ==
  /\ \A k \in 1..Len(results) : OneVariant(results[k])
  /\ \A i \in Tasks :
       (settled[i] # << >> /\ settled[i][1].state = "fulfilled")
         => OneVariant(settled[i][1].value)

\* A returned run with a not-found Failure, a Failure of the catch clause
\* and a Success.
C24_Witness ==
  /\ sched = "returned"
  /\ Len(results) = 3
  /\ results[1].success = FALSE /\ results[1].error = NotFoundMessage
  /\ results[2].success = FALSE /\ results[2].error = "HTTP 500"
  /\ results[3].success = TRUE /\ results[3].precision = PRECISION.SIMPLIFIED

\* The text of the error thrown for a response with a non-success status.
StatusText(status) ==
  CASE status = 429 -> "HTTP 429"
    [] status = 500 -> "HTTP 500"
    [] status = TransientStatus -> "HTTP 503"

\* The result of an address as a function of the address and of the answers
\* the provider gave to the address's own calls, recorded in its frame t.
OwnResult(address, t) ==
  LET c == t.sent[Len(t.sent)]
  IN  CASE c.answer = "match" ->
             SuccessResult(address, t.normalized, c.strategy, t.last[1].data[1])
        [] c.answer = "empty" ->
             [ address |-> address, success |-> FALSE, error |-> NotFoundMessage ]
        [] c.answer = "rejected" ->
             [ address |-> address, success |-> FALSE, error |-> RejectionMessage ]
        [] c.answer \in { "error", "transient" } ->
             [ address |-> address, success |-> FALSE,
               error |-> StatusText(t.last[1].status) ]

\* C25: failures are independent and nothing exits early: whatever the
\* results gathered so far, every member of the running batch has had its
\* Exact call issued, the run returns only with one result per address, and
\* the promise of an address is fulfilled with a value that is a function
\* of the address and of the answers to its own calls alone.
C25_FailuresAreIndependent ==
  /\ sched = "returned" => Len(results) = Len(addresses)
  /\ sched = "awaitAll" =>
       /\ Len(results) = batchIndex * BATCH_SIZE
       /\ \A i \in BatchMembers(batchIndex) :
            task[i].pc # "pending" /\ Len(task[i].sent) >= 1
  /\ \A i \in Tasks :
       settled[i] # << >> =>
         /\ settled[i][1].state = "fulfilled"
         /\ settled[i][1].value = OwnResult(addresses[i], task[i])

\* Both addresses of the first batch failed, and the third address, alone
\* in the second batch, was started all the same and matched.
C25_Witness ==
  /\ Len(addresses) = 3
  /\ Len(results) = 2
  /\ results[1].success = FALSE
  /\ results[2].success = FALSE
  /\ sched = "awaitAll"
  /\ Succeeded(3)

\* The result of geocodeSingleAddress(address) run on its own against the
\* provider's recorded answers: the call of strategy s with `query`, at
\* attempt number `attempt`, and what follows it.
RECURSIVE ResolveCall(_, _, _, _, _)
ResolveCall(address, normalized, s, query, attempt) ==
  LET response == provider[<< query, attempt >>]
      kind == ResponseKind(response)
  IN  IF kind = "transient" /\ attempt < MAX_RETRIES
        THEN ResolveCall(address, normalized, s, query, attempt + 1)
      ELSE IF kind = "match"
        THEN SuccessResult(address, normalized, s, response.data[1])
      ELSE IF kind = "empty"
        THEN LET next == NextCall(s + 1, normalized)
             IN  IF next.strategy <= 5
                   THEN ResolveCall(address, normalized, next.strategy,
                                    next.query, 0)
                   ELSE [ address |-> address, success |-> FALSE,
                          error |-> NotFoundMessage ]
      ELSE IF kind = "rejected"
        THEN [ address |-> address, success |-> FALSE, error |-> RejectionMessage ]
      ELSE [ address |-> address, success |-> FALSE,
             error |-> StatusText(response.status) ]

Resolve(address) ==
  ResolveCall(address, NormalizedOf[address], 1, NormalizedOf[address], 0)

\* C26: against a provider that gives the same answer to the same (query,
\* attempt number), the result list is a function of the address list and
\* of the provider's answers alone: whatever the interleaving inside the
\* batches, the result at position k is what resolving addresses[k] on its
\* own against those answers gives, so two runs over the same list and the
\* same answers return identical lists.
C26_Deterministic ==
  /\ \A i \in Tasks :
       settled[i] # << >> => settled[i][1] = Fulfilled(Resolve(addresses[i]))
  /\ \A k \in 1..Len(results) : results[k] = Resolve(addresses[k])
  /\ sched = "returned" => Len(results) = Len(addresses)

\* The two addresses of the first batch both asked "Springfield, IL": the
\* second address asked first, as its Exact query, and completed first; the
\* first address got the same answer for its street/city query.
C26_Witness ==
  /\ sched = "awaitAll"
  /\ batchIndex = 0
  /\ completion = << 2, 1 >>
  /\ Succeeded(1) /\ task[1].strategy = 3 /\ task[1].query = "Springfield, IL"
  /\ Succeeded(2) /\ task[2].strategy = 1 /\ task[2].query = "Springfield, IL"
  /\ << "Springfield, IL", 0 >> \in DOMAIN provider
  /\ settled[1][1].value = Resolve(addresses[1])

\* C27: when every provider request is eventually answered and every delay
\* eventually elapses, a call of geocodeAddresses eventually returns.
C27_EventuallyReturns == (sched # "idle") ~> (sched = "returned")

\* The run has returned after an inter-batch delay, and its first address
\* had used up its retries on 503 responses.
C27_Witness ==
  /\ sched = "returned"
  /\ batchDelays = 1
  /\ Len(results) = LiveAddrs
  /\ results[1].success = FALSE
  /\ results[1].error = "HTTP 503"

\* Text s holds sub somewhere.
Contains(s, sub) ==
  \E p \in 1..Len(s) :
    p + Len(sub) - 1 <= Len(s) /\ SubSeq(s, p, p + Len(sub) - 1) = sub

DigitCount(s) == Cardinality({ p \in 1..Len(s) : Ch(s, p) \in DigitSet })

\* In text c a 2-letter uppercase code standing on its own starts at p, and
\* after whitespace a number starts at d.
CodeThenNumber(c, p, d) ==
  /\ p + 1 <= Len(c)
  /\ Ch(c, p) \in UpperSet /\ Ch(c, p + 1) \in UpperSet
  /\ p = 1 \/ Ch(c, p - 1) \notin WordSet
  /\ d > p + 2 /\ d <= Len(c)
  /\ \A k \in (p + 2)..(d - 1) : Ch(c, k) \in SpaceSet
  /\ Ch(c, d) \in DigitSet

\* The number that starts at d has exactly k digits and ends there.
NumberOf(c, d, k) ==
  /\ d + k - 1 <= Len(c)
  /\ \A j \in d..(d + k - 1) : Ch(c, j) \in DigitSet
  /\ d + k > Len(c) \/ Ch(c, d + k) \notin WordSet

\* The places of c in need of repair: code at p, 4-digit number at d.
Repairs(c) ==
  { pd \in (1..Len(c)) \X (1..Len(c)) :
      CodeThenNumber(c, pd[1], pd[2]) /\ NumberOf(c, pd[2], 4) }

\* C28: in the whitespace-collapsed text c that fixZipCode receives, every 2-letter
\* uppercase code followed by whitespace and a number of exactly 4 digits
\* comes out as the code, a space, "0" and the number; one digit is added
\* per such place and nothing else changes, so that a number of 5 or more
\* digits after a code stays as it is; "Phoenix AZ 1234" normalizes to a
\* text that holds "AZ 01234".
C28_ZipRepair ==
  derivation.normalized # Null =>
    LET c == Trim(CollapseWhitespace(derivation.raw))
        n == derivation.normalized[1]
    IN  /\ \A pd \in Repairs(c) :
             Contains(n, SubSeq(c, pd[1], pd[1] + 1) \o " 0"
                           \o SubSeq(c, pd[2], pd[2] + 3))
        /\ DigitCount(n) = DigitCount(c) + Cardinality(Repairs(c))
        /\ Len(n) = Len(c) + Cardinality(Repairs(c))
        /\ Repairs(c) = { } => n = c
        /\ \A p \in 1..Len(c), d \in 1..Len(c), k \in 5..9 :
             (CodeThenNumber(c, p, d) /\ NumberOf(c, d, k))
               => Contains(n, SubSeq(c, p, d + k - 1))
        /\ derivation.raw = "Phoenix AZ 1234" => Contains(n, "AZ 01234")

\* "Phoenix AZ 1234" has been normalized to "Phoenix AZ 01234".
C28_Witness ==
  /\ derivation.raw = "Phoenix AZ 1234"
  /\ derivation.normalized = Some("Phoenix AZ 01234")
  /\ Repairs(derivation.raw) = { << 9, 12 >> }

\* The number of comma-delimited segments of text s.
SegmentCount(s) == Cardinality({ p \in 1..Len(s) : Ch(s, p) = "," }) + 1

\* C29: extractStreetCity returns null only for a normalized address of
\* fewer than 2 comma-delimited segments; for 2 or more segments it returns
\* the segment before the last, ", ", and the last segment with its postal
\* code removed.
C29_StreetCityFromTwoSegments ==
  derivation.streetCity # Null =>
    LET n == derivation.normalized[1]
        parts == TrimmedParts(n)
        r == derivation.streetCity[1]
    IN  /\ r = Null <=> SegmentCount(n) < 2
        /\ SegmentCount(n) >= 2 =>
             r = Some(parts[Len(parts) - 1] \o ", "
                        \o Trim(RemoveFirstZip(parts[Len(parts)])))

MinOf(S) == CHOOSE x \in S : \A y \in S : x <= y

\* The characters p..q of n stand on their own: no word character touches
\* them on either side.
OnItsOwn(n, p, q) ==
  /\ p = 1 \/ Ch(n, p - 1) \notin WordSet
  /\ q = Len(n) \/ Ch(n, q + 1) \notin WordSet

\* A US ZIP starts at p: five digits on their own (a +4 suffix, which
\* starts with "-", leaves them on their own).
USZipAt(n, p) ==
  /\ p + 4 <= Len(n)
  /\ \A k \in p..(p + 4) : Ch(n, k) \in DigitSet
  /\ OnItsOwn(n, p, p + 4)

\* A Canadian postal code occupies p..q: letter digit letter, optional
\* whitespace, digit letter digit, on its own.
CAPostalAt(n, p, q) ==
  /\ p + 5 <= q /\ q <= Len(n)
  /\ Ch(n, p) \in UpperSet /\ Ch(n, p + 1) \in DigitSet /\ Ch(n, p + 2) \in UpperSet
  /\ \A k \in (p + 3)..(q - 3) : Ch(n, k) \in SpaceSet
  /\ Ch(n, q - 2) \in DigitSet /\ Ch(n, q - 1) \in UpperSet /\ Ch(n, q) \in DigitSet
  /\ OnItsOwn(n, p, q)

\* C30: extractZipCode returns the five digits of the first US ZIP of the
\* normalized address, without any +4 suffix; when there is no US ZIP, the
\* first Canadian postal code; when there is neither, null. Strategy 5
\* sends exactly what extractZipCode returned, and nothing when it
\* returned null.
C30_ZipCodeQuery ==
  derivation.zipCode # Null =>
    LET n == derivation.normalized[1]
        r == derivation.zipCode[1]
        us == { p \in 1..Len(n) : USZipAt(n, p) }
        ca == { pq \in (1..Len(n)) \X (1..Len(n)) : CAPostalAt(n, pq[1], pq[2]) }
        first == CHOOSE pq \in ca : \A other \in ca : pq[1] <= other[1]
    IN  /\ us # { } => r = Some(SubSeq(n, MinOf(us), MinOf(us) + 4))
        /\ (us = { } /\ ca # { }) => r = Some(SubSeq(n, first[1], first[2]))
        /\ (us = { } /\ ca = { }) => r = Null
        /\ derivation.zipQuery = Some(r)
        /\ derivation.raw = "S4N 2C6 62704-1234" => r = Some("62704")

\* A Canadian postal code comes before a US ZIP with a +4 suffix: the five
\* digits of the ZIP are the query of strategy 5.
C30_Witness ==
  /\ derivation.raw = "S4N 2C6 62704-1234"
  /\ CAPostalAt(derivation.raw, 1, 7)
  /\ USZipAt(derivation.raw, 9)
  /\ derivation.zipCode = Some(Some("62704"))
  /\ derivation.zipQuery = Some(Some("62704"))

\* The request of address i is out and unanswered.
Unanswered(i) == task[i].pc = "fetching"

\* With the request of address i unanswered, the run is where it awaits the
\* batch of i: it has not returned, no address of a later batch is started,
\* and no progress call exists for any member of the batch of i.
StalledAt(i) ==
  /\ sched = "awaitAll"
  /\ batchIndex = (i - 1) \div BATCH_SIZE
  /\ Len(results) = batchIndex * BATCH_SIZE
  /\ \A j \in Tasks : (j - 1) \div BATCH_SIZE > batchIndex => task[j].pc = "pending"
  /\ Len(progress) = batchIndex * BATCH_SIZE
  /\ \A k \in 1..Len(progress) : (k - 1) \div BATCH_SIZE < batchIndex

\* A step that leaves the request of address i unanswered leaves the run
\* where it is: nothing is returned, gathered, reported or started.
StaysStalled(i) ==
  (Unanswered(i) /\ task'[i] = task[i]) =>
    /\ sched' = sched
    /\ batchIndex' = batchIndex
    /\ results' = results
    /\ progress' = progress
    /\ \A j \in Tasks :
         (j - 1) \div BATCH_SIZE > batchIndex => task'[j].pc = "pending"

\* C31: for as long as one request of a batch is unanswered the run stalls
\* at that batch: geocodeAddresses has not returned, no address of a later
\* batch is started, and no progress call is made for any member of the
\* batch, a sibling whose resolution already finished included; so a
\* request that is never answered stalls the run for ever.
C31_HungRequestStallsRun ==
  /\ [](\A i \in 1..GroupAddrs : Unanswered(i) => StalledAt(i))
  /\ [][\A i \in 1..GroupAddrs : StaysStalled(i)]_vars

\* The request of the first address is unanswered; its sibling has
\* finished, without a progress call, and the second batch is not started.
C31_Witness ==
  /\ onProgress
  /\ Unanswered(1)
  /\ settled[2] # << >>
  /\ task[2].pc = "done"
  /\ progress = << >>
  /\ task[3].pc = "pending"
  /\ sched = "awaitAll"

\* The requests answered so far, and those among them that were followed by
\* a retry delay (a 503 at an attempt below MAX_RETRIES).
RequestsAnswered == DOMAIN provider
RetryDelays ==
  { key \in DOMAIN provider :
      /\ provider[key].kind = "response"
      /\ provider[key].status = TransientStatus
      /\ key[2] < MAX_RETRIES }

\* C32: the retry budget is per query: every query is first requested at
\* attempt 0, whatever the calls before it absorbed, and requested again
\* only after a 503, at most MAX_RETRIES times; one address causes at most
\* 15 requests and at most 10 retry delays.
C32_RetryBudgetPerQuery ==
  /\ \A key \in RequestsAnswered :
       /\ key[2] \in 0..MAX_RETRIES
       /\ << key[1], 0 >> \in RequestsAnswered
       /\ key[2] > 0 => << key[1], key[2] - 1 >> \in RetryDelays
  /\ \A i \in Tasks :
       /\ task[i].retryCount \in 0..MAX_RETRIES
       /\ Active(i) => task[i].fetches = task[i].retryCount + 1
       /\ Len(task[i].sent) <= 5
       /\ (Unanswered(i) /\ task[i].retryCount = 0) =>
            << task[i].query, 0 >> \notin RequestsAnswered
  /\ Cardinality(RequestsAnswered)
       + Cardinality({ i \in Tasks : Unanswered(i) }) <= 5 * 3
  /\ Cardinality(RetryDelays) <= 5 * 2

\* The address has used three requests and two retry delays on each of its
\* five queries: 15 requests, 10 delays.
C32_Witness ==
  /\ sched = "returned"
  /\ Cardinality(RequestsAnswered) = 15
  /\ Cardinality(RetryDelays) = 10
  /\ results[1].error = NotFoundMessage

\* The calls that address i made for strategy s.
CallsOf(i, s) == { k \in 1..Len(task[i].sent) : task[i].sent[k].strategy = s }

\* C33: once the Exact call of an address returned no match, the Simplified
\* call is issued exactly when the simplified string differs from the
\* normalized address, and it is the second call, with the simplified
\* string as its query; when the two strings are identical no call is made
\* for strategy 2 and the chain goes on with strategy 3 or a later one.
\* Without an empty Exact answer there is no Simplified call at all.
C33_SimplifiedCall ==
  \A i \in Tasks :
    Len(task[i].sent) >= 1 =>
      LET n == task[i].normalized
          simplified == ChainQueries[n][2][1]
      IN  /\ task[i].sent[1].answer # "empty" => CallsOf(i, 2) = { }
          /\ (task[i].sent[1].answer = "empty" /\ simplified # n) =>
               /\ CallsOf(i, 2) = { 2 }
               /\ task[i].sent[2].query = simplified
          /\ (task[i].sent[1].answer = "empty" /\ simplified = n) =>
               /\ CallsOf(i, 2) = { }
               /\ Len(task[i].sent) >= 2 => task[i].sent[2].strategy >= 3

\* Both Exact calls of a batch returned no match: the "Suite 200" address
\* went on with its Simplified call, the bare ZIP code, whose simplified
\* string is itself, with a later strategy.
C33_Witness ==
  /\ Len(addresses) = 2
  /\ addresses[1] = "Suite 200, 9 Pine St Austin, TX 78701"
  /\ addresses[2] = "62704"
  /\ Len(task[1].sent) = 2
  /\ Len(task[2].sent) = 2
  /\ task[1].sent[1].answer = "empty"
  /\ CallsOf(1, 2) = { 2 }
  /\ task[1].sent[2].query = ", 9 Pine St Austin, TX 78701"
  /\ task[2].sent[1].answer = "empty"
  /\ CallsOf(2, 2) = { }

\* The text after a city group that ends before position g is a US tail
\* whose state code is at w: an optional comma, white space, two capitals,
\* white space and five digits.
USTailAt(n, g, w) ==
  LET c == IF IsCh(n, g, ",") THEN g + 1 ELSE g
  IN  /\ c < w
      /\ \A k \in c..(w - 1) : At(n, k, SpaceSet)
      /\ At(n, w, UpperSet) /\ At(n, w + 1, UpperSet)
      /\ \E d \in (w + 3)..Len(n) :
            /\ \A k \in (w + 2)..(d - 1) : At(n, k, SpaceSet)
            /\ \A k \in d..(d + 4) : At(n, k, DigitSet)

\* The same for the Canadian pattern: white space, a province code at w,
\* white space and a postal code of two groups of three.
CATailAt(n, g, w) ==
  /\ g < w
  /\ \A k \in g..(w - 1) : At(n, k, SpaceSet)
  /\ w + 1 <= Len(n)
  /\ SubSeq(n, w, w + 1) \in
       { "ON", "AB", "BC", "MB", "NB", "NL", "NS", "NT", "NU", "PE", "QC",
         "SK", "YT" }
  /\ \E d \in (w + 3)..Len(n) :
        /\ \A k \in (w + 2)..(d - 1) : At(n, k, SpaceSet)
        /\ \A k \in d..(d + 2) : At(n, k, UpperDigitSet)
        /\ \E e \in (d + 3)..Len(n) :
              /\ \A k \in (d + 3)..(e - 1) : At(n, k, SpaceSet)
              /\ \A k \in e..(e + 2) : At(n, k, UpperDigitSet)

\* The state codes of the matches of a pattern of n, each with the start of
\* its city group: a non-empty group of letters and white space from a to
\* just before g, followed by a tail.
USMatches(n) ==
  LET ends == { gw \in (1..Len(n)) \X (1..Len(n)) : USTailAt(n, gw[1], gw[2]) }
  IN  { m \in { << a, gw[1], gw[2] >> : a \in 1..Len(n), gw \in ends } :
            m[1] < m[2] /\ \A k \in m[1]..(m[2] - 1) : At(n, k, LetterSpaceSet) }

CAMatches(n) ==
  LET ends == { gw \in (1..Len(n)) \X (1..Len(n)) : CATailAt(n, gw[1], gw[2]) }
  IN  { m \in { << a, gw[1], gw[2] >> : a \in 1..Len(n), gw \in ends } :
          m[1] < m[2] /\ \A k \in m[1]..(m[2] - 1) : At(n, k, LetterSpaceSet) }

\* The match a regular expression search reports: the leftmost start, and
\* for it the shortest city group.
FirstMatch(ms) ==
  CHOOSE m \in ms :
    \A o \in ms : m[1] < o[1] \/ (m[1] = o[1] /\ m[2] <= o[2])

\* r ends with ", " and the two-letter code at position w of n.
EndsWithCode(r, n, w) ==
  /\ Len(r) >= 4
  /\ SubSeq(r, Len(r) - 3, Len(r)) = ", " \o SubSeq(n, w, w + 1)

\* C34: extractCityState answers from the US pattern when it matches, else
\* from the Canadian-province pattern when that matches, else from the last
\* two comma-separated segments; it returns null exactly when neither
\* pattern matches and the normalized address has fewer than two segments.
\* Strategy 4 sends what extractCityState returned, and nothing when it
\* returned null.
C34_CityStateOrder ==
  derivation.cityState # Null =>
    LET n == derivation.normalized[1]
        r == derivation.cityState[1]
        us == USMatches(n)
        ca == CAMatches(n)
    IN  /\ us # { } => r # Null /\ EndsWithCode(r[1], n, FirstMatch(us)[3])
        /\ (us = { } /\ ca # { }) =>
             r # Null /\ EndsWithCode(r[1], n, FirstMatch(ca)[3])
        /\ (us = { } /\ ca = { } /\ SegmentCount(n) >= 2) =>
             r # Null /\ Contains(r[1], ", ")
        /\ r = Null <=> (us = { } /\ ca = { } /\ SegmentCount(n) < 2)
        /\ derivation.cityQuery = Some(r)
        /\ derivation.raw = BothPatterns => r = Some("X, NV")
        /\ derivation.raw = "Reno SK S4N 2C6" => r = Some("Reno, SK")
        /\ derivation.raw = "Reno, NV" => r = Some("Reno, NV")
        /\ derivation.raw = "Reno NV" => r = Null

\* Both patterns match and the Canadian match starts first: the US match
\* is the one that answers, and it is the query of strategy 4.
C34_Witness ==
  /\ derivation.raw = BothPatterns
  /\ derivation.normalized = Some(BothPatterns)
  /\ USMatches(BothPatterns) # { }
  /\ CAMatches(BothPatterns) # { }
  /\ FirstMatch(CAMatches(BothPatterns))[1] < FirstMatch(USMatches(BothPatterns))[1]
  /\ derivation.cityState = Some(Some("X, NV"))
  /\ derivation.cityQuery = Some(Some("X, NV"))

\* C35: for an empty address list the call returns an empty result list at
\* once: it never waits for a batch or for a delay, no address is started
\* (so no provider request exists), no inter-batch delay is taken and the
\* progress callback is never invoked.
C35_EmptyListReturnsAtOnce ==
  addresses = << >> =>
    /\ sched \in { "idle", "returned" }
    /\ results = << >>
    /\ completedCount = 0
    /\ progress = << >>
    /\ batchDelays = 0
    /\ { i \in Tasks : task[i].pc # "pending" \/ task[i].fetches > 0 } = { }
    /\ completion = << >>

\* The call with an empty list and a progress callback has returned.
C35_Witness ==
  /\ addresses = << >>
  /\ onProgress
  /\ sched = "returned"
  /\ results = << >>
  /\ progress = << >>

\* s has no run of two or more white-space characters and no white space
\* at either end.
Collapsed(s) ==
  /\ \A p \in 1..Len(s) : ~(At(s, p, SpaceSet) /\ At(s, p + 1, SpaceSet))
  /\ ~At(s, 1, SpaceSet)
  /\ ~At(s, Len(s), SpaceSet)

\* C36: normalization is idempotent: normalizing a normalized address
\* returns it unchanged. The normalized address has no white-space run and
\* no white space at its ends left to rewrite, and no state code followed
\* by a four-digit number left to repair, so a repaired ZIP keeps its five
\* digits.
C36_NormalizeIdempotent ==
  derivation.renormalized # Null =>
    LET n == derivation.normalized[1]
        again == derivation.renormalized[1]
    IN  /\ again = n
        /\ Collapsed(n)
        /\ Repairs(n) = { }
        /\ DigitCount(again) = DigitCount(n)
        /\ derivation.raw = "AZ\t1234" => again = "AZ 01234"

\* A text with a tab between the state code and a four-digit number was
\* repaired, and normalizing the repaired text again changed nothing.
C36_Witness ==
  /\ derivation.raw = "AZ\t1234"
  /\ derivation.normalized = Some("AZ 01234")
  /\ derivation.renormalized = Some("AZ 01234")

\* The positions of the successes among the results rs, and the k-th of
\* them in input order.
SuccessPositions(rs) == { k \in 1..Len(rs) : rs[k].success }
KthSuccess(rs, k) ==
  CHOOSE p \in SuccessPositions(rs) :
    Cardinality({ q \in SuccessPositions(rs) : q <= p }) = k

\* The latest run of handleAddLocations went through geocodeAddresses and
\* has ended.
RanToEnd == ui.pc = "idle" /\ ui.exit \in { "no success", "partial", "full", "thrown" }

\* C37: a run of handleAddLocations calls onLocationsAdded at most once,
\* and with exactly the successes among the results of geocodeAddresses,
\* in input order. When no address succeeded it is not called and the
\* error "Could not geocode any addresses" is shown. When some addresses
\* failed, the warning names each of them, and no failure is ever among
\* the locations added.
C37_OnlySuccessesForwarded ==
  /\ [](/\ Len(ui.added) <= 1
        /\ \A c \in 1..Len(ui.added) :
             /\ Len(ui.added[c]) = Cardinality(SuccessPositions(ui.got))
             /\ Len(ui.added[c]) > 0
             /\ \A k \in 1..Len(ui.added[c]) :
                  /\ ui.added[c][k].success
                  /\ ui.added[c][k] = ui.got[KthSuccess(ui.got, k)]
        /\ RanToEnd =>
             /\ ui.got = results
             /\ Len(ui.got) = Len(addresses)
             /\ SuccessPositions(ui.got) = { } <=> ui.added = << >>
             /\ SuccessPositions(ui.got) = { } <=> ui.exit = "no success"
             /\ ui.exit = "full" => SuccessPositions(ui.got) = 1..Len(ui.got)
        /\ ~RanToEnd => ui.added = << >>)
  /\ [][(ui.pc = "awaiting" /\ ui'.pc = "idle") =>
          /\ ui'.exit = "no success" =>
               ui'.error = Some("Could not geocode any addresses. Please check the format.")
          /\ ui'.exit = "partial" =>
               /\ Contains(ui'.error[1], "Warning: ")
               /\ \A k \in 1..Len(results) :
                    ~results[k].success =>
                      Contains(ui'.error[1], results[k].address)]_vars

\* Of three addresses the second failed: the first and the third result
\* were forwarded in one call, and the warning names the second address.
C37_Witness ==
  /\ RanToEnd
  /\ ui.exit = "partial"
  /\ Len(ui.got) = 3
  /\ SuccessPositions(ui.got) = { 1, 3 }
  /\ ui.added = << << ui.got[1], ui.got[3] >> >>
  /\ ui.error = Some("Warning: 1 address(es) could not be found: 62704")

\* A step taken while loading is set belongs to the run in progress: it
\* starts no run, and it leaves the text of the textarea and the error
\* alone unless it is the step that ends the run.
NoSecondRun ==
  ui.loading =>
    /\ addresses' = addresses
    /\ ui'.added = ui.added \/ (ui'.pc = "idle" /\ sched = "returned")
    /\ \A i \in 1..Len(addresses) :
         task[i].pc # "pending" => task'[i].pc # "pending"
    /\ ui'.pc = "awaiting" => (ui'.inputText = ui.inputText /\ ui'.error = ui.error)

Exits == { "blank", "none parsed", "no success", "partial", "full", "thrown" }

\* C38: loading is set from the start of handleAddLocations to its end and
\* at no other time: it is set while the handler awaits geocodeAddresses
\* and it is clear, with progress 0/0, once the handler has ended in any of
\* its six ways. While loading is set no step starts a second run or
\* changes the text.
C38_LoadingBracketsRun ==
  /\ [](/\ ui.loading <=> ui.pc = "awaiting"
        /\ ui.pc = "awaiting" => ui.exit = ""
        /\ ui.pc = "idle" => ui.progress = NoProgress
        /\ ui.exit # "" => ui.exit \in Exits /\ ~ui.loading)
  /\ [][NoSecondRun]_vars

\* A run has ended with a thrown error: loading is clear and the progress
\* is back to 0/0, after a run that had reported progress 2 of 3.
C38_Witness ==
  /\ ui.exit = "thrown"
  /\ ui.pc = "idle"
  /\ ~ui.loading
  /\ ui.progress = NoProgress
  /\ Len(progress) = 3
  /\ ui.error = Some("callback failed")

====
